---- MODULE Spec2Model ----
(***************************************************************************)
(* Finite-difference operators and the red-black Gauss-Seidel/SOR vector   *)
(* Poisson solver of Core/SpatialPartition/uniformGridMath.cpp.            *)
(*                                                                         *)
(* Number representation.  Grid samples are floats in the source; here a   *)
(* finite sample is an integer and a Vec3 is a 3-tuple of integers.  The   *)
(* cell spacing along an axis is the rational spacing[a] / SpacingDen, so  *)
(* that every reciprocal the source forms (1/spacing, 0.5/spacing,         *)
(* 1/spacing^2) is an exact integer.  The SOR update is evaluated exactly  *)
(* as a ratio of integers and rounded once to the nearest integer.  The    *)
(* not-a-number sentinel is the value NaN, which every arithmetic          *)
(* operation on scalar samples propagates.                                 *)
(*                                                                         *)
(* Axis a of the source (index[0], index[1], index[2]) is component a+1    *)
(* of the tuples dims, spacing and idx used here.                          *)
(***************************************************************************)
EXTENDS Integers, Sequences, FiniteSets, TLC

\* ------------------------------------------------------------------------
\* Bounds of the model
\* ------------------------------------------------------------------------
MaxSteps == 2
MaxTbbSteps == 1
MaxSeed == 2
MaxWorkers == 2
MaxKind == 1

\* ------------------------------------------------------------------------
\* Program constants
\* ------------------------------------------------------------------------
GS_RED == 0
GS_BLACK == 1
GS_BOTH == 2
SpacingDen == 2 * 2
RelaxNum == 172
RelaxDen == 100
gNumberOfProcessors == 8

BC_NEUMANN == "BC_NEUMANN"
BC_DIRICHLET == "BC_DIRICHLET"

VARIABLES
    dims,           \* points per axis of every grid in use
    spacing,        \* cell spacing numerators (spacing[a] / SpacingDen)
    useTbb,         \* build flag USE_TBB
    boundaryCondition,
    numSteps,       \* argument of SolveVectorPoisson
    soln,           \* solution grid, flat offset -> Vec3
    soln0,          \* the solution grid as supplied by the caller
    lap,            \* source grid, flat offset -> Vec3
    lap0,           \* the source grid as supplied by the caller
    iter,           \* loop counter of SolveVectorPoisson
    pc,             \* position of the thread running SolveVectorPoisson
    tasks,          \* the invocations of StepTowardVectorPoissonSolution
                    \* started by the current round and not yet joined
    phase,          \* phase[i]: position of invocation tasks[i]
    residualStats,  \* the Stats_Float the caller passes by reference
    scalarVals,     \* scalar input grid of the gradient operators
    gradientGrid,   \* Vec3 output grid of the gradient operators
    gradientGrid0,  \* the output grid as it was before the call
    gradPc,         \* position of the caller of the grid operators
    written,        \* offsets of the output grid the operator has written
    faceWr,         \* offsets the boundary passes of this round have written
    vec,            \* Vec3 input grid of ComputeJacobian / ComputeLaplacian
    outDims,        \* points per axis of the output grid handed over
    jacobian,       \* Mat33 grid: output of ComputeJacobian, input of the curl
    curlDims,       \* points per axis of the curl grid handed over
    curl,           \* Vec3 output grid of ComputeCurlFromJacobian
    laplacian,      \* Vec3 output grid of ComputeLaplacian
    valMin,         \* results of FindValueRange
    valMax

vars == <<dims, spacing, useTbb, boundaryCondition, numSteps, soln, soln0,
          lap, lap0, iter, pc, tasks, phase, residualStats, scalarVals,
          gradientGrid, gradientGrid0, gradPc, written, faceWr, vec,
          outDims, jacobian, curlDims, curl, laplacian, valMin, valMax>>

gradVars == <<scalarVals, gradientGrid, gradientGrid0, gradPc, written>>

solveVars == <<boundaryCondition, numSteps, soln, soln0, lap, lap0, iter, pc,
               tasks, phase, residualStats, faceWr>>

opVars == <<vec, outDims, jacobian, curlDims, curl, laplacian, valMin, valMax>>

\* ------------------------------------------------------------------------
\* Small helpers of the source
\* ------------------------------------------------------------------------
Max2(a, b) == IF a > b THEN a ELSE b

Min2(a, b) == IF a < b THEN a ELSE b

MAX3(a, b, c) == Max2(Max2(a, b), c)

Clamp(x, lo, hi) == Min2(Max2(x, lo), hi)

\* Nearest integer to n / d, d > 0 (the single rounding of an update).
RoundDiv(n, d) == (2 * n + d) \div (2 * d)

VAdd(u, v) == <<u[1] + v[1], u[2] + v[2], u[3] + v[3]>>

VSub(u, v) == <<u[1] - v[1], u[2] - v[2], u[3] - v[3]>>

VScale(k, v) == <<k * v[1], k * v[2], k * v[3]>>

VRoundDiv(v, d) == <<RoundDiv(v[1], d), RoundDiv(v[2], d), RoundDiv(v[3], d)>>

\* ------------------------------------------------------------------------
\* Grid geometry
\* ------------------------------------------------------------------------
dimsMinus1 == <<dims[1] - 1, dims[2] - 1, dims[3] - 1>>

numXY == dims[1] * dims[2]

GridSize == dims[1] * dims[2] * dims[3]

\* Flat offset of the point with indices idx (ASSIGN_XYZ_OFFSETS).
offsetX0Y0Z0(idx) == idx[1] + dims[1] * idx[2] + numXY * idx[3]

offsetXMY0Z0(idx) == offsetX0Y0Z0(idx) - 1

offsetXPY0Z0(idx) == offsetX0Y0Z0(idx) + 1

offsetX0YMZ0(idx) == offsetX0Y0Z0(idx) - dims[1]

offsetX0YPZ0(idx) == offsetX0Y0Z0(idx) + dims[1]

offsetX0Y0ZM(idx) == offsetX0Y0Z0(idx) - numXY

offsetX0Y0ZP(idx) == offsetX0Y0Z0(idx) + numXY

AllPoints == (0 .. dims[1] - 1) \X (0 .. dims[2] - 1) \X (0 .. dims[3] - 1)

\* The float +infinity, the quotient 1.0f / 0.0f.
Inf == 1500000000

\* 1.0f / s, for a spacing s held as a numerator over SpacingDen.
Reciprocal(s) == IF s = 0 THEN Inf ELSE SpacingDen \div s

\* spacing > FLT_EPSILON ? 1/spacing : 0 on z, plain 1/spacing on x and y.
reciprocalSpacing ==
    << Reciprocal(spacing[1]),
       Reciprocal(spacing[2]),
       IF spacing[3] > 0 THEN Reciprocal(spacing[3]) ELSE 0 >>

\* 0.5f * r
Half(r) == IF r = Inf THEN Inf ELSE r \div 2

halfReciprocalSpacing ==
    << Half(reciprocalSpacing[1]),
       Half(reciprocalSpacing[2]),
       Half(reciprocalSpacing[3]) >>

POW2(r) == IF r = Inf THEN Inf ELSE r * r

reciprocalSpacing2 ==
    << POW2(reciprocalSpacing[1]),
       POW2(reciprocalSpacing[2]),
       POW2(reciprocalSpacing[3]) >>

\* HalfSpacing2Sum = 0.5 / HalfSpacing2SumDen * 2, kept as its denominator.
HalfSpacing2SumDen ==
    IF Inf \in {reciprocalSpacing2[1], reciprocalSpacing2[2],
                reciprocalSpacing2[3]}
    THEN Inf
    ELSE 2 * (reciprocalSpacing2[1] + reciprocalSpacing2[2]
                + reciprocalSpacing2[3])

\* ------------------------------------------------------------------------
\* Floating-point special values and functions
\* ------------------------------------------------------------------------
FLT_MAX == 1000000000
NaN == -2000000000

IsNan(v) == v = NaN

RECURSIVE SqrtSearch(_, _, _)
\* Largest r in lo .. hi with r * r <= n.
SqrtSearch(n, lo, hi) ==
    IF lo >= hi THEN lo
    ELSE LET mid == (lo + hi + 1) \div 2
         IN  IF mid * mid <= n THEN SqrtSearch(n, mid, hi)
             ELSE SqrtSearch(n, lo, mid - 1)

\* sqrt / fsqrtf: not-a-number for a negative argument.
fsqrtf(v) == IF v < 0 THEN NaN ELSE SqrtSearch(v, 0, Min2(v, 46340))

Magnitude(v) == fsqrtf(v[1] * v[1] + v[2] * v[2] + v[3] * v[3])

\* ------------------------------------------------------------------------
\* StepTowardVectorPoissonSolution
\* ------------------------------------------------------------------------
\* Variant: the shift ignores the z index.
idxYShiftIgnoringZ(z, redOrBlack) == IF 0 = redOrBlack THEN 1 ELSE 0

\* ASSIGN_Y_SHIFT
idxYShift(z, redOrBlack) == IF z % 2 = redOrBlack THEN 1 ELSE 0

\* Variant: every portion steps y by 2.
iyStepAlwaysTwo(redOrBlack) == IF GS_BOTH = redOrBlack THEN 2 ELSE 2

iyStep(redOrBlack) == IF GS_BOTH = redOrBlack THEN 1 ELSE 2

idxZMinInterior(izStart) == Max2(1, izStart)

idxZMaxInterior(izEnd) == Min2(dimsMinus1[3], izEnd)

\* Values taken by  for( i = first ; i < end ; i += step ).
LoopRange(first, end, step) ==
    {i \in first .. end - 1 : (i - first) % step = 0}

\* Index triples visited by the interior loop nest.
InteriorPoints(izStart, izEnd, redOrBlack) ==
    {idx \in AllPoints :
        /\ idx[3] \in idxZMinInterior(izStart) .. idxZMaxInterior(izEnd) - 1
        /\ idx[2] \in LoopRange(1 + idxYShift(idx[3], redOrBlack),
                                dimsMinus1[2], iyStep(redOrBlack))
        /\ idx[1] \in 1 .. dimsMinus1[1] - 1}

\* Variant: the source term is left out of the update.
UpdatedValNoSource(s, idx) ==
    LET sum == VAdd(VAdd(
                   VScale(reciprocalSpacing2[1],
                          VAdd(s[offsetXPY0Z0(idx)], s[offsetXMY0Z0(idx)])),
                   VScale(reciprocalSpacing2[2],
                          VAdd(s[offsetX0YPZ0(idx)], s[offsetX0YMZ0(idx)]))),
                   VScale(reciprocalSpacing2[3],
                          VAdd(s[offsetX0Y0ZP(idx)], s[offsetX0Y0ZM(idx)])))
    IN  VRoundDiv(VAdd(VScale((RelaxDen - RelaxNum) * HalfSpacing2SumDen,
                              s[offsetX0Y0Z0(idx)]),
                       VScale(RelaxNum, sum)),
                  RelaxDen * HalfSpacing2SumDen)

\* The value stored into soln[ offsetX0Y0Z0 ] for point idx of grid s:
\* oneMinusRelax * soln + relax * vSolution.
UpdatedVal(s, idx) ==
    LET sum == VSub(VAdd(VAdd(
                   VScale(reciprocalSpacing2[1],
                          VAdd(s[offsetXPY0Z0(idx)], s[offsetXMY0Z0(idx)])),
                   VScale(reciprocalSpacing2[2],
                          VAdd(s[offsetX0YPZ0(idx)], s[offsetX0YMZ0(idx)]))),
                   VScale(reciprocalSpacing2[3],
                          VAdd(s[offsetX0Y0ZP(idx)], s[offsetX0Y0ZM(idx)]))),
                   lap[offsetX0Y0Z0(idx)])
    IN  VRoundDiv(VAdd(VScale((RelaxDen - RelaxNum) * HalfSpacing2SumDen,
                              s[offsetX0Y0Z0(idx)]),
                       VScale(RelaxNum, sum)),
                  RelaxDen * HalfSpacing2SumDen)

\* Offsets read by the update of point idx.
StencilReads(idx) ==
    {offsetX0Y0Z0(idx), offsetXMY0Z0(idx), offsetXPY0Z0(idx),
     offsetX0YMZ0(idx), offsetX0YPZ0(idx), offsetX0Y0ZM(idx),
     offsetX0Y0ZP(idx)}

\* First point of a loop nest: loops run z, then y, then x ascending, which
\* is ascending flat offset.
FirstPoint(todo) ==
    CHOOSE p \in todo : \A q \in todo : offsetX0Y0Z0(p) <= offsetX0Y0Z0(q)

\* Tally of one residual into the raw statistics (serial build only).
TallyResidual(st, residual) ==
    [mMean   |-> st.mMean + residual,
     mStdDev |-> st.mStdDev + residual * residual,
     mMin    |-> Min2(residual, st.mMin),
     mMax    |-> Max2(residual, st.mMax)]

RECURSIVE SolveInterior(_, _)
\* The interior loop nest over the points todo; acc = [s, st, n] holds the
\* solution grid, the raw residual statistics and residualsCount.
SolveInterior(acc, todo) ==
    IF todo = {} THEN acc
    ELSE LET idx        == FirstPoint(todo)
             o          == offsetX0Y0Z0(idx)
             updatedVal == UpdatedVal(acc.s, idx)
             residual   == Magnitude(VSub(updatedVal, acc.s[o]))
         IN  SolveInterior(
                 [s  |-> [acc.s EXCEPT ![o] = updatedVal],
                  st |-> IF useTbb THEN acc.st
                         ELSE TallyResidual(acc.st, residual),
                  n  |-> IF useTbb THEN acc.n ELSE acc.n + 1],
                 todo \ {idx})

\* Source point just inside the domain, adjacent to boundary point idx.
idxInterior(idx) ==
    << Clamp(idx[1], 1, dimsMinus1[1] - 1),
       Clamp(idx[2], 1, dimsMinus1[2] - 1),
       Clamp(idx[3], 1, dimsMinus1[3] - 1) >>

offsetInterior(idx) == offsetX0Y0Z0(idxInterior(idx))

RECURSIVE AssignValuesOnBoundaryPoints(_, _)
\* ASSIGN_VALUES_ON_BOUNDARY_POINTS applied along one face loop nest.
AssignValuesOnBoundaryPoints(s, todo) ==
    IF todo = {} THEN s
    ELSE LET idx      == FirstPoint(todo)
             assigned == [s EXCEPT ![offsetX0Y0Z0(idx)] = s[offsetInterior(idx)]]
         \* The assignment is made in place before the loop goes on: the grid
         \* is evaluated here, not carried unevaluated into the next iteration.
         IN  IF DOMAIN assigned = DOMAIN s
             THEN AssignValuesOnBoundaryPoints(assigned, todo \ {idx})
             ELSE s

\* Index triples visited by each of the six face loop nests.
NegXPoints(izStart, izEnd, redOrBlack) ==
    {idx \in AllPoints :
        /\ idx[1] = 0
        /\ idx[3] \in izStart .. izEnd - 1
        /\ idx[2] \in LoopRange(idxYShift(idx[3], redOrBlack), dims[2],
                                iyStep(redOrBlack))}

NegYPoints(izStart, izEnd, redOrBlack) ==
    {idx \in AllPoints : idx[2] = 0 /\ idx[3] \in izStart .. izEnd - 1}

\* Variant: the -Z face is assigned by every slice.
NegZPointsEverySlice(izStart, izEnd, redOrBlack) ==
    {idx \in AllPoints :
        /\ idx[3] = 0
        /\ idx[2] \in LoopRange(idxYShift(0, redOrBlack), dims[2],
                                iyStep(redOrBlack))}

NegZPoints(izStart, izEnd, redOrBlack) ==
    IF 0 = izStart
    THEN {idx \in AllPoints :
            /\ idx[3] = 0
            /\ idx[2] \in LoopRange(idxYShift(0, redOrBlack), dims[2],
                                    iyStep(redOrBlack))}
    ELSE {}

PosXPoints(izStart, izEnd, redOrBlack) ==
    {idx \in AllPoints :
        /\ idx[1] = dimsMinus1[1]
        /\ idx[3] \in izStart .. izEnd - 1
        /\ idx[2] \in LoopRange(0, dims[2], iyStep(redOrBlack))}

PosYPoints(izStart, izEnd, redOrBlack) ==
    {idx \in AllPoints :
        idx[2] = dimsMinus1[2] /\ idx[3] \in izStart .. izEnd - 1}

PosZPoints(izStart, izEnd, redOrBlack) ==
    IF izEnd = dims[3]
    THEN {idx \in AllPoints :
            /\ idx[3] = dimsMinus1[3]
            /\ idx[2] \in LoopRange(idxYShift(dimsMinus1[3], redOrBlack),
                                    dims[2], iyStep(redOrBlack))}
    ELSE {}

FacePoints(face, izStart, izEnd, redOrBlack) ==
    CASE face = "negX" -> NegXPoints(izStart, izEnd, redOrBlack)
      [] face = "negY" -> NegYPoints(izStart, izEnd, redOrBlack)
      [] face = "negZ" -> NegZPoints(izStart, izEnd, redOrBlack)
      [] face = "posX" -> PosXPoints(izStart, izEnd, redOrBlack)
      [] face = "posY" -> PosYPoints(izStart, izEnd, redOrBlack)
      [] face = "posZ" -> PosZPoints(izStart, izEnd, redOrBlack)

\* The six face loop nests in the order the source runs them.
FaceOrder == <<"negX", "negY", "negZ", "posX", "posY", "posZ">>

\* Variant: the face loops run under either boundary condition.
AssignsBoundaryAlways(bc) == bc \in {BC_NEUMANN, BC_DIRICHLET}

\* if( BC_NEUMANN == boundaryCondition ): whether the face loops run.
AssignsBoundary(bc) == BC_NEUMANN = bc

\* Faces a step assigns, in order.
FacesToAssign == IF AssignsBoundary(boundaryCondition) THEN FaceOrder ELSE << >>

RECURSIVE AssignFaces(_, _, _)
\* The face loop nests faces[k], faces[k+1], ... of task t applied to grid s.
AssignFaces(s, t, k) ==
    IF k > Len(FacesToAssign) THEN s
    ELSE AssignFaces(
             AssignValuesOnBoundaryPoints(
                 s, FacePoints(FacesToAssign[k], t.izStart, t.izEnd,
                               t.redOrBlack)),
             t, k + 1)

\* All boundary points task t assigns.
BoundaryPoints(t) ==
    UNION {FacePoints(FacesToAssign[k], t.izStart, t.izEnd, t.redOrBlack) :
               k \in 1 .. Len(FacesToAssign)}

\* The residual statistics on entry of a step.
ResetStats ==
    [mMean |-> 0, mStdDev |-> 0, mMin |-> FLT_MAX, mMax |-> 0 - FLT_MAX]

\* Variant: the sums are left undivided.
CookStatsWithoutDivision(st, residualsCount) ==
    IF residualsCount # 0
    THEN [st EXCEPT !.mStdDev = fsqrtf(st.mStdDev)]
    ELSE st

\* if( residualsCount != 0 ): raw tallies become mean and deviation.
CookStats(st, residualsCount) ==
    IF residualsCount # 0
    THEN LET mean     == RoundDiv(st.mMean, residualsCount)
             mean2    == RoundDiv(st.mStdDev, residualsCount)
             variance == mean2 - mean * mean
         IN  [st EXCEPT !.mMean = mean, !.mStdDev = fsqrtf(variance)]
    ELSE st

\* ------------------------------------------------------------------------
\* SolveVectorPoisson
\* ------------------------------------------------------------------------
\* Variant: the automatic count without its factor 2.
numStepsAutoSingle == MAX3(dims[1], dims[2], dims[3])

numStepsAuto == 2 * MAX3(dims[1], dims[2], dims[3])

maxIters == IF numSteps > 0 THEN numSteps ELSE numStepsAuto

grainSize == Max2(1, dims[3] \div gNumberOfProcessors)

RECURSIVE BlockedRanges(_, _, _)
\* The ways tbb::blocked_range( b , e , g ) is divided among workers: a
\* range longer than the grain size g may be split at its middle.
BlockedRanges(b, e, g) ==
    {<< <<b, e>> >>} \cup
    ( IF e - b > g
      THEN LET m == b + (e - b) \div 2
           IN  {l \o r : l \in BlockedRanges(b, m, g),
                         r \in BlockedRanges(m, e, g)}
      ELSE {} )

\* Slices of [0, numZ) one sweep is run as: the parallel_for of the TBB
\* build, or the single direct call of the serial build.
SweepRanges ==
    IF useTbb
    THEN {rs \in BlockedRanges(0, dims[3], grainSize) : Len(rs) <= MaxWorkers}
    ELSE {<< <<0, dims[3]>> >>}

NewTask(range, redOrBlack) ==
    [izStart |-> range[1], izEnd |-> range[2], redOrBlack |-> redOrBlack,
     residualsCount |-> 0, rd |-> {}, wr |-> {}]

NewTasks(ranges, redOrBlack) ==
    [i \in 1 .. Len(ranges) |-> NewTask(ranges[i], redOrBlack)]

NewPhases(ranges) == [i \in 1 .. Len(ranges) |-> "interior"]

\* Variant: parallel_for returns without waiting for its invocations.
AllJoinedNoWait(ph) == \A i \in 1 .. Len(ph) : ph[i] \in STRING

\* parallel_for returns when every invocation it started has returned.
AllJoined(ph) == \A i \in 1 .. Len(ph) : ph[i] = "done"

\* The entries of sequence sq whose invocation has not returned.
Unfinished(sq, ph) ==
    LET keep == {i \in 1 .. Len(ph) : ph[i] # "done"}
    IN  [k \in 1 .. Cardinality(keep) |->
            sq[CHOOSE i \in keep : Cardinality({j \in keep : j <= i}) = k]]

\* Variant: the statistics are not reset on entry.
StepInteriorWithoutReset(i) ==
    /\ phase[i] = "interior"
    /\ phase' = [phase EXCEPT ![i] = "boundary"]
    /\ LET t   == tasks[i]
           pts == InteriorPoints(t.izStart, t.izEnd, t.redOrBlack)
           acc == SolveInterior([s |-> soln, st |-> residualStats, n |-> 0], pts)
       IN  /\ soln' = acc.s
           /\ residualStats' = acc.st
           /\ tasks' = [tasks EXCEPT ![i] =
                  [t EXCEPT !.residualsCount = acc.n,
                            !.rd = UNION {StencilReads(idx) : idx \in pts},
                            !.wr = {offsetX0Y0Z0(idx) : idx \in pts}]]
    /\ UNCHANGED <<dims, spacing, useTbb, boundaryCondition, numSteps, soln0,
                   lap, lap0, iter, pc, faceWr, gradVars, opVars>>

\* One invocation runs its interior loop nest (function entry included).
StepInterior(i) ==
    /\ phase[i] = "interior"
    /\ phase' = [phase EXCEPT ![i] = "boundary"]
    /\ LET t   == tasks[i]
           pts == InteriorPoints(t.izStart, t.izEnd, t.redOrBlack)
           acc == SolveInterior([s |-> soln, st |-> ResetStats, n |-> 0], pts)
       IN  /\ soln' = acc.s
           /\ residualStats' = acc.st
           /\ tasks' = [tasks EXCEPT ![i] =
                  [t EXCEPT !.residualsCount = acc.n,
                            !.rd = UNION {StencilReads(idx) : idx \in pts},
                            !.wr = {offsetX0Y0Z0(idx) : idx \in pts}]]
    /\ UNCHANGED <<dims, spacing, useTbb, boundaryCondition, numSteps, soln0,
                   lap, lap0, iter, pc, faceWr, gradVars, opVars>>

\* One invocation imposes the boundary condition, cooks the residual
\* statistics and returns.
StepBoundary(i) ==
    /\ phase[i] = "boundary"
    /\ phase' = [phase EXCEPT ![i] = "done"]
    /\ LET t   == tasks[i]
           pts == BoundaryPoints(t)
       IN  /\ soln' = AssignFaces(soln, t, 1)
           /\ residualStats' = CookStats(residualStats, t.residualsCount)
           /\ tasks' = [tasks EXCEPT ![i] =
                  [t EXCEPT !.rd = @ \cup {offsetInterior(idx) : idx \in pts},
                            !.wr = @ \cup {offsetX0Y0Z0(idx) : idx \in pts}]]
           /\ faceWr' = faceWr \cup {offsetX0Y0Z0(idx) : idx \in pts}
    /\ UNCHANGED <<dims, spacing, useTbb, boundaryCondition, numSteps, soln0,
                   lap, lap0, iter, pc, gradVars, opVars>>

\* for( iter < maxIters ): the red sweep of a round starts.
StartRed ==
    /\ pc = "loop"
    /\ iter < maxIters
    /\ \E ranges \in SweepRanges :
           /\ tasks' = tasks \o NewTasks(ranges, GS_RED)
           /\ phase' = phase \o NewPhases(ranges)
    /\ pc' = "red"
    /\ faceWr' = {}
    /\ UNCHANGED <<dims, spacing, useTbb, boundaryCondition, numSteps, soln,
                   soln0, lap, lap0, iter, residualStats, gradVars, opVars>>

\* The red sweep has returned; the black sweep starts.
StartBlack ==
    /\ pc = "red"
    /\ AllJoined(phase)
    /\ \E ranges \in SweepRanges :
           /\ tasks' = Unfinished(tasks, phase) \o NewTasks(ranges, GS_BLACK)
           /\ phase' = Unfinished(phase, phase) \o NewPhases(ranges)
    /\ pc' = "black"
    /\ UNCHANGED <<dims, spacing, useTbb, boundaryCondition, numSteps, soln,
                   soln0, lap, lap0, iter, residualStats, faceWr, gradVars,
                   opVars>>

\* The black sweep has returned; ++ iter.
EndRound ==
    /\ pc = "black"
    /\ AllJoined(phase)
    /\ tasks' = Unfinished(tasks, phase)
    /\ phase' = Unfinished(phase, phase)
    /\ iter' = iter + 1
    /\ pc' = "loop"
    /\ UNCHANGED <<dims, spacing, useTbb, boundaryCondition, numSteps, soln,
                   soln0, lap, lap0, residualStats, faceWr, gradVars,
                   opVars>>

\* The loop condition fails; SolveVectorPoisson returns.
Return ==
    /\ pc = "loop"
    /\ ~ (iter < maxIters)
    /\ pc' = "done"
    /\ UNCHANGED <<dims, spacing, useTbb, boundaryCondition, numSteps, soln,
                   soln0, lap, lap0, iter, tasks, phase, residualStats,
                   faceWr, gradVars, opVars>>

\* ------------------------------------------------------------------------
\* Preconditions
\* ------------------------------------------------------------------------
\* UniformGrid::ShapeMatches: both grids have the same points per axis.
ShapeMatches(a, b) == a = b

\* Everything an operator whose ASSERT has failed leaves as it was.
operandVars == <<dims, spacing, useTbb, solveVars, opVars, scalarVals,
                 gradientGrid, gradientGrid0, written>>

\* ASSERT( ok ) with ok false: the caller of the operator goes no further.
AssertionFailure(ok) ==
    /\ gradPc = "start"
    /\ ~ ok
    /\ gradPc' = "aborted"
    /\ UNCHANGED operandVars

\* ASSERT( gradientGrid.ShapeMatches( scalarVals ) )
GradientPreconditions == ShapeMatches(outDims, dims)

ComputeGradientAborts == AssertionFailure(GradientPreconditions)

\* ------------------------------------------------------------------------
\* ComputeGradient
\* ------------------------------------------------------------------------
\* Float subtraction and multiplication: not-a-number propagates.
FSub(a, b) == IF IsNan(a) \/ IsNan(b) THEN NaN ELSE a - b

\* A finite difference a times a reciprocal b: 0 * inf is not-a-number.
FMul(a, b) ==
    IF IsNan(a) \/ IsNan(b) THEN NaN
    ELSE IF b = Inf
    THEN (IF a = 0 THEN NaN ELSE IF a > 0 THEN Inf ELSE 0 - Inf)
    ELSE a * b

\* Index triple of a flat offset (inverse of offsetX0Y0Z0).
IndexOf(o) == <<o % dims[1], (o \div dims[1]) % dims[2], o \div numXY>>

\* The gradient ComputeGradientInteriorSlice stores at point idx.
CenteredGradient(val, idx) ==
    << FMul(FSub(val[offsetXPY0Z0(idx)], val[offsetXMY0Z0(idx)]),
            halfReciprocalSpacing[1]),
       FMul(FSub(val[offsetX0YPZ0(idx)], val[offsetX0YMZ0(idx)]),
            halfReciprocalSpacing[2]),
       FMul(FSub(val[offsetX0Y0ZP(idx)], val[offsetX0Y0ZM(idx)]),
            halfReciprocalSpacing[3]) >>

\* Index triples visited by the loop nest of ComputeGradientInteriorSlice.
GradientInteriorPoints(izStart, izEnd) ==
    {idx \in AllPoints :
        /\ idx[3] \in izStart .. izEnd - 1
        /\ idx[2] \in 1 .. dimsMinus1[2] - 1
        /\ idx[1] \in 1 .. dimsMinus1[1] - 1}

ComputeGradientInteriorSlice(grad, val, izStart, izEnd) ==
    [o \in DOMAIN grad |->
        IF IndexOf(o) \in GradientInteriorPoints(izStart, izEnd)
        THEN CenteredGradient(val, IndexOf(o))
        ELSE grad[o]]

\* Variant: the one-sided differences scaled like the centered one.
BoundaryPartialHalved(val, idx, a, offsetM, offsetP) ==
    IF idx[a] = 0
    THEN FMul(FSub(val[offsetP], val[offsetX0Y0Z0(idx)]),
              halfReciprocalSpacing[a])
    ELSE IF idx[a] = dimsMinus1[a]
    THEN FMul(FSub(val[offsetX0Y0Z0(idx)], val[offsetM]),
              halfReciprocalSpacing[a])
    ELSE FMul(FSub(val[offsetP], val[offsetM]), halfReciprocalSpacing[a])

\* One component of COMPUTE_FINITE_PARTIAL_DIFFERENTIALS_AT_BOUNDARIES:
\* axis a, with the offsets of the minus-side and plus-side neighbours.
BoundaryPartial(val, idx, a, offsetM, offsetP) ==
    IF idx[a] = 0
    THEN FMul(FSub(val[offsetP], val[offsetX0Y0Z0(idx)]), reciprocalSpacing[a])
    ELSE IF idx[a] = dimsMinus1[a]
    THEN FMul(FSub(val[offsetX0Y0Z0(idx)], val[offsetM]), reciprocalSpacing[a])
    ELSE FMul(FSub(val[offsetP], val[offsetM]), halfReciprocalSpacing[a])

\* COMPUTE_FINITE_PARTIAL_DIFFERENTIALS_AT_BOUNDARIES
BoundaryGradient(val, idx) ==
    << BoundaryPartial(val, idx, 1, offsetXMY0Z0(idx), offsetXPY0Z0(idx)),
       BoundaryPartial(val, idx, 2, offsetX0YMZ0(idx), offsetX0YPZ0(idx)),
       BoundaryPartial(val, idx, 3, offsetX0Y0ZM(idx), offsetX0Y0ZP(idx)) >>

\* Index triples visited by the six face loop nests of ComputeGradient.
GradientFacePoints ==
    {idx \in AllPoints : idx[1] = 0} \cup
    {idx \in AllPoints : idx[2] = 0} \cup
    {idx \in AllPoints : idx[3] = 0} \cup
    {idx \in AllPoints : idx[1] = dimsMinus1[1]} \cup
    {idx \in AllPoints : idx[2] = dimsMinus1[2]} \cup
    {idx \in AllPoints : idx[3] = dimsMinus1[3]}

ComputeGradientBoundaries(grad, val) ==
    [o \in DOMAIN grad |->
        IF IndexOf(o) \in GradientFacePoints
        THEN BoundaryGradient(val, IndexOf(o))
        ELSE grad[o]]

\* The grid a whole call of ComputeGradient leaves (serial build): the
\* interior slice [1, dimsMinus1[2]), then the six faces.
ComputeGradient(grad, val) ==
    ComputeGradientBoundaries(
        ComputeGradientInteriorSlice(grad, val, 1, dimsMinus1[3]), val)

\* Slices the interior pass is run as: parallel_for over
\* blocked_range( 1 , dimsMinus1[2] , grainSize ), or one direct call.
GradientRanges ==
    IF useTbb
    THEN {rs \in BlockedRanges(1, dimsMinus1[3],
                               Max2(1, (dimsMinus1[3] - 1)
                                           \div gNumberOfProcessors)) :
              Len(rs) <= MaxWorkers}
    ELSE {<< <<1, dimsMinus1[3]>> >>}

RECURSIVE GradientInteriorSlices(_, _, _, _)
\* The slices ranges[k], ranges[k+1], ... ; they write disjoint samples and
\* read only the input grid, so their order does not matter.
GradientInteriorSlices(grad, val, ranges, k) ==
    IF k > Len(ranges) THEN grad
    ELSE GradientInteriorSlices(
             ComputeGradientInteriorSlice(grad, val, ranges[k][1],
                                          ranges[k][2]),
             val, ranges, k + 1)

\* ComputeGradient: the interior pass.
ComputeGradientInterior ==
    /\ gradPc = "start"
    /\ GradientPreconditions
    /\ \E ranges \in GradientRanges :
           /\ gradientGrid' =
                  GradientInteriorSlices(gradientGrid, scalarVals, ranges, 1)
           /\ written' = written \cup
                  {offsetX0Y0Z0(idx) :
                       idx \in UNION {GradientInteriorPoints(ranges[k][1],
                                                             ranges[k][2]) :
                                          k \in 1 .. Len(ranges)}}
    /\ gradPc' = "gradientFaces"
    /\ UNCHANGED <<dims, spacing, useTbb, solveVars, opVars, scalarVals,
                   gradientGrid0>>

\* ComputeGradient: the six boundary faces, then return.
ComputeGradientFaces ==
    /\ gradPc = "gradientFaces"
    /\ gradientGrid' = ComputeGradientBoundaries(gradientGrid, scalarVals)
    /\ written' = written \cup
           {offsetX0Y0Z0(idx) : idx \in GradientFacePoints}
    /\ gradPc' = "gradientDone"
    /\ UNCHANGED <<dims, spacing, useTbb, solveVars, opVars, scalarVals,
                   gradientGrid0>>

\* ------------------------------------------------------------------------
\* ComputeGradientConditionally
\* ------------------------------------------------------------------------
UNIFORM_GRID_INVALID_VALUE == NaN

\* SET_PARTIAL_DERIVATIVE_CONDITIONALLY( componentIndex , minusIndex ,
\* plusIndex , component ): the value gradient.component holds after the
\* macro, old being its value before.  a = componentIndex + 1.
SetPartialDerivativeConditionally(val, idx, a, minusIndex, plusIndex, old) ==
    IF IsNan(val[idx[a]])
    THEN UNIFORM_GRID_INVALID_VALUE
    ELSE LET idxUpper == IF idx[a] < dimsMinus1[a] /\ ~ IsNan(val[idx[a] + 1])
                         THEN plusIndex ELSE offsetX0Y0Z0(idx)
             idxLower == IF idx[a] > 0 /\ ~ IsNan(val[idx[a] - 1])
                         THEN minusIndex ELSE offsetX0Y0Z0(idx)
             idxDiff  == idxUpper - idxLower
             \* if( 2 == idxDiff ) { centered difference }
             after2   == IF 2 = idxDiff
                         THEN FMul(FSub(val[idxUpper], val[idxLower]),
                                   halfReciprocalSpacing[a])
                         ELSE old
             \* if( 1 == idxDiff ) { one-sided difference } else { invalid }
         IN  IF 1 = idxDiff
             THEN FMul(FSub(val[idxUpper], val[idxLower]),
                       reciprocalSpacing[a])
             ELSE UNIFORM_GRID_INVALID_VALUE

\* The elements of scalarVals one expansion of
\* SET_PARTIAL_DERIVATIVE_CONDITIONALLY dereferences at point idx for axis
\* a: at is the subscript the code passes, of the point whose sample the
\* access stands for (the point itself or its neighbour along the axis).
ConditionalDereferences(val, idx, a, minusIndex, plusIndex) ==
    LET self == [at |-> idx[a], of |-> idx]
        up   == [at |-> idx[a] + 1, of |-> [idx EXCEPT ![a] = @ + 1]]
        down == [at |-> idx[a] - 1, of |-> [idx EXCEPT ![a] = @ - 1]]
        idxUpper == IF idx[a] < dimsMinus1[a] /\ ~ IsNan(val[idx[a] + 1])
                    THEN [at |-> plusIndex, of |-> up.of]
                    ELSE [at |-> offsetX0Y0Z0(idx), of |-> idx]
        idxLower == IF idx[a] > 0 /\ ~ IsNan(val[idx[a] - 1])
                    THEN [at |-> minusIndex, of |-> down.of]
                    ELSE [at |-> offsetX0Y0Z0(idx), of |-> idx]
    IN  {self} \cup
        ( IF IsNan(val[idx[a]]) THEN {}
          ELSE (IF idx[a] < dimsMinus1[a] THEN {up} ELSE {}) \cup
               (IF idx[a] > 0 THEN {down} ELSE {}) \cup
               (IF idxUpper.at - idxLower.at \in {1, 2}
                THEN {idxUpper, idxLower} ELSE {}) )

\* Variant: the x and y loops start at index 0.
ConditionalPointsFromZero(izStart, izEnd) ==
    {idx \in AllPoints :
        /\ idx[3] \in izStart .. izEnd - 1
        /\ idx[2] \in 0 .. dims[2] - 1
        /\ idx[1] \in 0 .. dims[1] - 1}

\* Index triples visited by the loop nest of
\* ComputeGradientConditionallySlice.
ConditionalPoints(izStart, izEnd) ==
    {idx \in AllPoints :
        /\ idx[3] \in izStart .. izEnd - 1
        /\ idx[2] \in 1 .. dims[2] - 1
        /\ idx[1] \in 1 .. dims[1] - 1}

ConditionalGradient(val, idx, old) ==
    << SetPartialDerivativeConditionally(val, idx, 1, offsetXMY0Z0(idx),
                                         offsetXPY0Z0(idx), old[1]),
       SetPartialDerivativeConditionally(val, idx, 2, offsetX0YMZ0(idx),
                                         offsetX0YPZ0(idx), old[2]),
       SetPartialDerivativeConditionally(val, idx, 3, offsetX0Y0ZM(idx),
                                         offsetX0Y0ZP(idx), old[3]) >>

ComputeGradientConditionallySlice(grad, val, izStart, izEnd) ==
    [o \in DOMAIN grad |->
        IF IndexOf(o) \in ConditionalPoints(izStart, izEnd)
        THEN ConditionalGradient(val, IndexOf(o), grad[o])
        ELSE grad[o]]

\* ComputeGradientConditionally: one slice call over [1, dims[2]).
ComputeGradientConditionally ==
    /\ gradPc = "start"
    /\ GradientPreconditions
    /\ gradientGrid' =
           ComputeGradientConditionallySlice(gradientGrid, scalarVals, 1,
                                             dims[3])
    /\ written' = written \cup
           {offsetX0Y0Z0(idx) : idx \in ConditionalPoints(1, dims[3])}
    /\ gradPc' = "conditionalDone"
    /\ UNCHANGED <<dims, spacing, useTbb, solveVars, opVars, scalarVals,
                   gradientGrid0>>

\* ------------------------------------------------------------------------
\* ComputeLaplacian
\* ------------------------------------------------------------------------
\* ASSIGN_XXYYZZ_OFFSETS
offsetXMMY0Z0(idx) == offsetX0Y0Z0(idx) - 2

offsetXPPY0Z0(idx) == offsetX0Y0Z0(idx) + 2

offsetX0YMMZ0(idx) == offsetX0Y0Z0(idx) - 2 * dims[1]

offsetX0YPPZ0(idx) == offsetX0Y0Z0(idx) + 2 * dims[1]

offsetX0Y0ZMM(idx) == offsetX0Y0Z0(idx) - 2 * numXY

offsetX0Y0ZPP(idx) == offsetX0Y0Z0(idx) + 2 * numXY

\* ( v[ a ] + v[ b ] - 2.0f * v[ c ] ) * reciprocalSpacing2, one axis.
SecondDifference(v, a, b, c, rs2) ==
    VScale(rs2, VSub(VAdd(v[a], v[b]), VScale(2, v[c])))

\* The interior stencil: ( d2/dx2 + d2/dy2 + d2/dz2 ) vec.
InteriorLaplacian(v, idx) ==
    VAdd(VAdd(
        SecondDifference(v, offsetXPY0Z0(idx), offsetXMY0Z0(idx),
                         offsetX0Y0Z0(idx), reciprocalSpacing2[1]),
        SecondDifference(v, offsetX0YPZ0(idx), offsetX0YMZ0(idx),
                         offsetX0Y0Z0(idx), reciprocalSpacing2[2])),
        SecondDifference(v, offsetX0Y0ZP(idx), offsetX0Y0ZM(idx),
                         offsetX0Y0Z0(idx), reciprocalSpacing2[3]))

\* Variant: the one-sided branches weigh the middle sample once.
BoundaryLaplacianTermSingle(v, idx, a, oMM, oM, oP, oPP) ==
    LET o0 == offsetX0Y0Z0(idx)
    IN  IF idx[a] = 0
        THEN VScale(reciprocalSpacing2[a], VSub(VAdd(v[oPP], v[o0]), v[oP]))
        ELSE IF idx[a] = dimsMinus1[a]
        THEN VScale(reciprocalSpacing2[a], VSub(VAdd(v[o0], v[oMM]), v[oM]))
        ELSE SecondDifference(v, oP, oM, o0, reciprocalSpacing2[a])

\* One axis of COMPUTE_FINITE_PARTIAL_DIFFERENTIALS_AT_BOUNDARIES of
\* ComputeLaplacian: one-sided second difference on the two end planes of
\* axis a, centered second difference between them.
BoundaryLaplacianTerm(v, idx, a, oMM, oM, oP, oPP) ==
    LET o0 == offsetX0Y0Z0(idx)
    IN  IF idx[a] = 0
        THEN SecondDifference(v, oPP, o0, oP, reciprocalSpacing2[a])
        ELSE IF idx[a] = dimsMinus1[a]
        THEN SecondDifference(v, o0, oMM, oM, reciprocalSpacing2[a])
        ELSE SecondDifference(v, oP, oM, o0, reciprocalSpacing2[a])

\* Variant: the y and z branches assign instead of adding.
BoundaryLaplacianOverwriting(v, idx) ==
    BoundaryLaplacianTerm(v, idx, 3, offsetX0Y0ZMM(idx), offsetX0Y0ZM(idx),
                          offsetX0Y0ZP(idx), offsetX0Y0ZPP(idx))

BoundaryLaplacian(v, idx) ==
    VAdd(VAdd(
        BoundaryLaplacianTerm(v, idx, 1, offsetXMMY0Z0(idx), offsetXMY0Z0(idx),
                              offsetXPY0Z0(idx), offsetXPPY0Z0(idx)),
        BoundaryLaplacianTerm(v, idx, 2, offsetX0YMMZ0(idx), offsetX0YMZ0(idx),
                              offsetX0YPZ0(idx), offsetX0YPPZ0(idx))),
        BoundaryLaplacianTerm(v, idx, 3, offsetX0Y0ZMM(idx), offsetX0Y0ZM(idx),
                              offsetX0Y0ZP(idx), offsetX0Y0ZPP(idx)))

\* Index triples visited by the interior loop nest of ComputeLaplacian.
LaplacianInteriorPoints ==
    {idx \in AllPoints : \A a \in 1 .. 3 : idx[a] \in 1 .. dimsMinus1[a] - 1}

\* Index triples visited by the six face loop nests of ComputeLaplacian.
LaplacianFacePoints ==
    {idx \in AllPoints : idx[1] = 0} \cup
    {idx \in AllPoints : idx[2] = 0} \cup
    {idx \in AllPoints : idx[3] = 0} \cup
    {idx \in AllPoints : idx[1] = dimsMinus1[1]} \cup
    {idx \in AllPoints : idx[2] = dimsMinus1[2]} \cup
    {idx \in AllPoints : idx[3] = dimsMinus1[3]}

\* Variant: two points per axis are taken to be enough.
LaplacianDimsOkTwo == dims[1] >= 2 /\ dims[2] >= 2 /\ dims[3] >= 2

\* ASSERT( ( vec.GetNumPoints( 0 ) >= 3 ) && ... )
LaplacianDimsOk == dims[1] >= 3 /\ dims[2] >= 3 /\ dims[3] >= 3

LaplacianPreconditions == ShapeMatches(outDims, dims) /\ LaplacianDimsOk

\* The grid ComputeLaplacian leaves: the interior loop, then the six face
\* loops (a face point is written by the face macro, the last writer).
LaplacianGrid(out, v) ==
    [o \in DOMAIN out |->
        IF IndexOf(o) \in LaplacianFacePoints
        THEN BoundaryLaplacian(v, IndexOf(o))
        ELSE IF IndexOf(o) \in LaplacianInteriorPoints
        THEN InteriorLaplacian(v, IndexOf(o))
        ELSE out[o]]

\* What vec[ offset ] may yield for an offset outside the grid: the
\* language leaves it undefined.
OutOfBoundsReads == {<<0, 0, 0>>, <<1, 1, 1>>}

\* The memory the offsets of the two-step stencil can reach: the samples of
\* grid v, and junk before and after them.
Reachable(v, junk) ==
    [o \in (0 - 2 * numXY) .. (GridSize - 1 + 2 * numXY) |->
        IF o \in DOMAIN v THEN v[o] ELSE junk]

ComputeLaplacian ==
    /\ gradPc = "start"
    /\ LaplacianPreconditions
    /\ \E junk \in OutOfBoundsReads :
           laplacian' = LaplacianGrid(laplacian, Reachable(vec, junk))
    /\ written' = written \cup
           {offsetX0Y0Z0(idx) :
                idx \in LaplacianInteriorPoints \cup LaplacianFacePoints}
    /\ gradPc' = "laplacianDone"
    /\ UNCHANGED <<dims, spacing, useTbb, solveVars, scalarVals, gradientGrid,
                   gradientGrid0, vec, outDims, jacobian, curlDims, curl,
                   valMin, valMax>>

ComputeLaplacianAborts == AssertionFailure(LaplacianPreconditions)

\* ------------------------------------------------------------------------
\* ComputeJacobian
\* ------------------------------------------------------------------------
\* A Mat33 is the triple <<j.x, j.y, j.z>> of Vec3 rows, row a holding the
\* partial derivatives of the three components with respect to axis a.
InteriorJacobian(v, idx) ==
    << VScale(halfReciprocalSpacing[1],
              VSub(v[offsetXPY0Z0(idx)], v[offsetXMY0Z0(idx)])),
       VScale(halfReciprocalSpacing[2],
              VSub(v[offsetX0YPZ0(idx)], v[offsetX0YMZ0(idx)])),
       VScale(halfReciprocalSpacing[3],
              VSub(v[offsetX0Y0ZP(idx)], v[offsetX0Y0ZM(idx)])) >>

\* Variant: the one-sided rows scaled like the centered one.
BoundaryJacobianRowHalved(v, idx, a, oM, oP) ==
    IF idx[a] = 0
    THEN VScale(halfReciprocalSpacing[a], VSub(v[oP], v[offsetX0Y0Z0(idx)]))
    ELSE IF idx[a] = dimsMinus1[a]
    THEN VScale(halfReciprocalSpacing[a], VSub(v[offsetX0Y0Z0(idx)], v[oM]))
    ELSE VScale(halfReciprocalSpacing[a], VSub(v[oP], v[oM]))

\* One row of COMPUTE_FINITE_PARTIAL_DIFFERENTIALS_AT_BOUNDARIES of
\* ComputeJacobian.
BoundaryJacobianRow(v, idx, a, oM, oP) ==
    IF idx[a] = 0
    THEN VScale(reciprocalSpacing[a], VSub(v[oP], v[offsetX0Y0Z0(idx)]))
    ELSE IF idx[a] = dimsMinus1[a]
    THEN VScale(reciprocalSpacing[a], VSub(v[offsetX0Y0Z0(idx)], v[oM]))
    ELSE VScale(halfReciprocalSpacing[a], VSub(v[oP], v[oM]))

BoundaryJacobian(v, idx) ==
    << BoundaryJacobianRow(v, idx, 1, offsetXMY0Z0(idx), offsetXPY0Z0(idx)),
       BoundaryJacobianRow(v, idx, 2, offsetX0YMZ0(idx), offsetX0YPZ0(idx)),
       BoundaryJacobianRow(v, idx, 3, offsetX0Y0ZM(idx), offsetX0Y0ZP(idx)) >>

\* Index triples visited by the interior loop nest of ComputeJacobian.
JacobianInteriorPoints ==
    {idx \in AllPoints : \A a \in 1 .. 3 : idx[a] \in 1 .. dimsMinus1[a] - 1}

\* Variant: the +Y face loop is missing.
JacobianFacePointsFive ==
    {idx \in AllPoints : idx[1] = 0} \cup
    {idx \in AllPoints : idx[2] = 0} \cup
    {idx \in AllPoints : idx[3] = 0} \cup
    {idx \in AllPoints : idx[1] = dimsMinus1[1]} \cup
    {idx \in AllPoints : idx[3] = dimsMinus1[3]}

\* Index triples visited by the six face loop nests of ComputeJacobian.
JacobianFacePoints ==
    {idx \in AllPoints : idx[1] = 0} \cup
    {idx \in AllPoints : idx[2] = 0} \cup
    {idx \in AllPoints : idx[3] = 0} \cup
    {idx \in AllPoints : idx[1] = dimsMinus1[1]} \cup
    {idx \in AllPoints : idx[2] = dimsMinus1[2]} \cup
    {idx \in AllPoints : idx[3] = dimsMinus1[3]}

\* The grid ComputeJacobian leaves: the interior loop, then the six face
\* loops.
JacobianGrid(out, v) ==
    [o \in DOMAIN out |->
        IF IndexOf(o) \in JacobianFacePoints
        THEN BoundaryJacobian(v, IndexOf(o))
        ELSE IF IndexOf(o) \in JacobianInteriorPoints
        THEN InteriorJacobian(v, IndexOf(o))
        ELSE out[o]]

\* ASSERT( jacobian.ShapeMatches( vec ) )
JacobianPreconditions == ShapeMatches(outDims, dims)

ComputeJacobian ==
    /\ gradPc = "start"
    /\ JacobianPreconditions
    /\ jacobian' = JacobianGrid(jacobian, vec)
    /\ written' = written \cup
           {offsetX0Y0Z0(idx) :
                idx \in JacobianInteriorPoints \cup JacobianFacePoints}
    /\ gradPc' = "jacobianDone"
    /\ UNCHANGED <<dims, spacing, useTbb, solveVars, scalarVals, gradientGrid,
                   gradientGrid0, vec, outDims, curlDims, curl, laplacian,
                   valMin, valMax>>

ComputeJacobianAborts == AssertionFailure(JacobianPreconditions)

\* ------------------------------------------------------------------------
\* ComputeCurlFromJacobian
\* ------------------------------------------------------------------------
\* Variant: the z component subtracts the wrong way round.
CurlOfFlipped(j) ==
    <<j[2][3] - j[3][2], j[3][1] - j[1][3], j[2][1] - j[1][2]>>

\* Vec3( j.y.z - j.z.y , j.z.x - j.x.z , j.x.y - j.y.x )
CurlOf(j) ==
    <<j[2][3] - j[3][2], j[3][1] - j[1][3], j[1][2] - j[2][1]>>

\* Offsets visited by the loop nest: every point of the Jacobian grid, by
\* the layout of the Jacobian grid.
CurlOffsets == {offsetX0Y0Z0(idx) : idx \in AllPoints}

\* The function has no precondition: it runs on whatever curl grid it is
\* handed (here one that holds at least as many samples as the Jacobian).
ComputeCurlFromJacobian ==
    /\ gradPc = "jacobianDone"
    /\ curl' = [o \in DOMAIN curl |->
                   IF o \in CurlOffsets THEN CurlOf(jacobian[o]) ELSE curl[o]]
    /\ written' = CurlOffsets
    /\ gradPc' = "curlDone"
    /\ UNCHANGED <<dims, spacing, useTbb, solveVars, scalarVals, gradientGrid,
                   gradientGrid0, vec, outDims, jacobian, curlDims, laplacian,
                   valMin, valMax>>

\* ------------------------------------------------------------------------
\* FindValueRange
\* ------------------------------------------------------------------------
\* Variant: the running extremes start at 0.
RangeStartZero == [valMin |-> 0, valMax |-> 0]

\* valMin = FLT_MAX ; valMax = -FLT_MAX ;
RangeStart == [valMin |-> FLT_MAX, valMax |-> 0 - FLT_MAX]

RECURSIVE AggregateRange(_, _, _)
\* The loop nest from flat offset o on: idx[2], idx[1], idx[0] ascending is
\* ascending flat offset.
AggregateRange(grid, acc, o) ==
    IF o >= GridSize THEN acc
    ELSE AggregateRange(grid,
                        [valMin |-> Min2(grid[o], acc.valMin),
                         valMax |-> Max2(grid[o], acc.valMax)],
                        o + 1)

FindValueRange ==
    /\ gradPc = "start"
    /\ LET r == AggregateRange(scalarVals, RangeStart, 0)
       IN  valMin' = r.valMin /\ valMax' = r.valMax
    /\ gradPc' = "rangeDone"
    /\ UNCHANGED <<dims, spacing, useTbb, solveVars, scalarVals, gradientGrid,
                   gradientGrid0, written, vec, outDims, jacobian, curlDims,
                   curl, laplacian>>

\* ------------------------------------------------------------------------
\* Inputs
\* ------------------------------------------------------------------------
Shapes == {<<3, 3, 3>>, <<3, 4, 3>>, <<3, 3, 4>>}

Spacings == {<<1, 1, 1>>, <<2, 1, 0>>}

\* Sample pattern number k at flat offset o; pattern 0 is all zero.
Sample(o, k) == (((o + 1) * k * k + o * o * k) % 11) * 100

SeedGrid(size, k) ==
    [o \in 0 .. size - 1 |-> <<Sample(o, k), Sample(o + 1, k), Sample(o + 2, k)>>]

\* Source grids: sample patterns of the size of a second difference.
SourceGrid(size, k) ==
    [o \in 0 .. size - 1 |-> VScale(SpacingDen * SpacingDen, SeedGrid(size, k)[o])]

\* Grid g with every boundary sample replaced by the sample of the adjacent
\* interior point: a solution grid that already meets the Neumann condition.
WithCopiedBoundary(g) ==
    [o \in DOMAIN g |->
        g[ Clamp(o % dims[1], 1, dims[1] - 2)
           + dims[1] * Clamp((o \div dims[1]) % dims[2], 1, dims[2] - 2)
           + dims[1] * dims[2] * Clamp(o \div (dims[1] * dims[2]), 1,
                                       dims[3] - 2) ]]

\* Solution grids the caller passes: sample patterns, as they are or
\* meeting the Neumann condition.
SolutionGrids(size) ==
    {SeedGrid(size, k) : k \in 0 .. MaxSeed} \cup
    {WithCopiedBoundary(SeedGrid(size, k)) : k \in 1 .. MaxSeed}

\* The source of which grid g is the exact discrete solution: its 7-point
\* second difference at the interior points (the source is not read
\* anywhere else).
ExactSource(g) ==
    [o \in DOMAIN g |->
        LET i == o % dims[1]
            j == (o \div dims[1]) % dims[2]
            k == o \div (dims[1] * dims[2])
            rs(a) == IF spacing[a] > 0
                     THEN (SpacingDen \div spacing[a]) * (SpacingDen \div spacing[a])
                     ELSE 0
            d2(step, a) == VScale(rs(a), VSub(VAdd(g[o + step], g[o - step]),
                                              VScale(2, g[o])))
        IN  IF i \in 1 .. dims[1] - 2 /\ j \in 1 .. dims[2] - 2
               /\ k \in 1 .. dims[3] - 2
            THEN VAdd(VAdd(d2(1, 1), d2(dims[1], 2)), d2(dims[1] * dims[2], 3))
            ELSE <<0, 0, 0>>]

\* Source grids the caller passes for solution grid g.
SourceGrids(size, g) == {SourceGrid(size, 0), SourceGrid(size, 2), ExactSource(g)}

\* Step counts the caller passes: 0 asks for the automatic count.
StepCounts(tbb) == IF tbb THEN 1 .. MaxTbbSteps ELSE 0 .. MaxSteps

Init ==
    /\ dims \in Shapes
    /\ spacing \in Spacings
    /\ useTbb \in BOOLEAN
    /\ boundaryCondition \in {BC_NEUMANN, BC_DIRICHLET}
    /\ numSteps \in StepCounts(useTbb)
    /\ soln \in SolutionGrids(dims[1] * dims[2] * dims[3])
    /\ lap \in SourceGrids(dims[1] * dims[2] * dims[3], soln)
    /\ soln0 = soln
    /\ lap0 = lap
    /\ iter = 0
    /\ pc = "loop"
    /\ tasks = << >>
    /\ phase = << >>
    /\ residualStats = ResetStats
    /\ scalarVals = << >>
    /\ gradientGrid = << >>
    /\ gradientGrid0 = << >>
    /\ gradPc = "idle"
    /\ written = {}
    /\ faceWr = {}
    /\ vec = << >>
    /\ outDims = dims
    /\ jacobian = << >>
    /\ curlDims = dims
    /\ curl = << >>
    /\ laplacian = << >>
    /\ valMin = 0
    /\ valMax = 0

Next ==
    \/ StartRed
    \/ StartBlack
    \/ EndRound
    \/ Return
    \/ \E i \in 1 .. Len(tasks) : StepInterior(i)
    \/ \E i \in 1 .. Len(tasks) : StepBoundary(i)

Spec == Init /\ [][Next]_vars

\* The thread running SolveVectorPoisson takes its next step.
SolverStep == StartRed \/ StartBlack \/ EndRound \/ Return

\* Some invocation that has not returned moves to its next phase.
TaskStep ==
    \E i \in 1 .. Len(phase) :
        /\ phase[i] # "done"
        /\ phase' = [phase EXCEPT
                        ![i] = IF @ = "interior" THEN "boundary" ELSE "done"]

\* Threads are never starved: the solver thread and the workers keep
\* running while they have something to do.
FairSpec == Spec /\ WF_vars(SolverStep) /\ WF_phase(TaskStep)

\* ------------------------------------------------------------------------
\* Inputs of the solver in the serial build, on grids with several interior
\* points of either colour
\* ------------------------------------------------------------------------
SerialShapes == {<<3, 3, 3>>, <<4, 3, 3>>, <<3, 4, 4>>, <<3, 5, 3>>}

SerialInit ==
    /\ dims \in SerialShapes
    /\ spacing \in Spacings
    /\ useTbb = FALSE
    /\ boundaryCondition \in {BC_NEUMANN, BC_DIRICHLET}
    /\ numSteps \in StepCounts(useTbb)
    /\ soln \in {SeedGrid(dims[1] * dims[2] * dims[3], k) : k \in 0 .. MaxSeed}
    /\ lap \in {SourceGrid(dims[1] * dims[2] * dims[3], k) : k \in {0, 2}}
    /\ soln0 = soln
    /\ lap0 = lap
    /\ iter = 0
    /\ pc = "loop"
    /\ tasks = << >>
    /\ phase = << >>
    /\ residualStats = ResetStats
    /\ scalarVals = << >>
    /\ gradientGrid = << >>
    /\ gradientGrid0 = << >>
    /\ gradPc = "idle"
    /\ written = {}
    /\ faceWr = {}
    /\ vec = << >>
    /\ outDims = dims
    /\ jacobian = << >>
    /\ curlDims = dims
    /\ curl = << >>
    /\ laplacian = << >>
    /\ valMin = 0
    /\ valMax = 0

SerialSpec == SerialInit /\ [][Next]_vars

\* ------------------------------------------------------------------------
\* Inputs of a single relaxation sweep
\* ------------------------------------------------------------------------
\* Grids with more than one interior point along an axis.
SweepShapes == {<<4, 4, 4>>, <<3, 5, 4>>, <<4, 3, 5>>}

\* z-ranges a caller may pass: ASSERT( izStart < numZ ), ASSERT( izEnd <=
\* numZ ); an empty range runs no loop.
SweepSlices(numZ) ==
    {r \in (0 .. numZ - 1) \X (0 .. numZ) : r[1] <= r[2]}

\* Portions a caller may pass: ASSERT( redOrBlack >= GS_MIN && < GS_NUM ).
Portions == {GS_RED, GS_BLACK, GS_BOTH}

\* StepTowardVectorPoissonSolution called once, directly.
SweepInit ==
    /\ dims \in SweepShapes
    /\ spacing \in Spacings
    /\ useTbb \in BOOLEAN
    /\ boundaryCondition \in {BC_NEUMANN, BC_DIRICHLET}
    /\ numSteps = 1
    /\ soln \in {SeedGrid(dims[1] * dims[2] * dims[3], k) : k \in 1 .. MaxSeed}
    /\ lap = SourceGrid(dims[1] * dims[2] * dims[3], 2)
    /\ soln0 = soln
    /\ lap0 = lap
    /\ iter = 0
    /\ pc = "sweep"
    /\ \E range \in SweepSlices(dims[3]), redOrBlack \in Portions :
           tasks = << NewTask(range, redOrBlack) >>
    /\ phase = << "interior" >>
    /\ residualStats = ResetStats
    /\ scalarVals = << >>
    /\ gradientGrid = << >>
    /\ gradientGrid0 = << >>
    /\ gradPc = "idle"
    /\ written = {}
    /\ faceWr = {}
    /\ vec = << >>
    /\ outDims = dims
    /\ jacobian = << >>
    /\ curlDims = dims
    /\ curl = << >>
    /\ laplacian = << >>
    /\ valMin = 0
    /\ valMax = 0

SweepNext ==
    \/ \E i \in 1 .. Len(tasks) : StepInterior(i)
    \/ \E i \in 1 .. Len(tasks) : StepBoundary(i)

SweepSpec == SweepInit /\ [][SweepNext]_vars

\* ------------------------------------------------------------------------
\* Inputs of a relaxation sweep run as several calls
\* ------------------------------------------------------------------------
\* The ways of cutting [b, e) into at most n consecutive non-empty ranges.
RECURSIVE Slicings(_, _, _)
Slicings(b, e, n) ==
    {<< <<b, e>> >>} \cup
    ( IF n > 1
      THEN UNION {{<< <<b, c>> >> \o rest : rest \in Slicings(c, e, n - 1)} :
                      c \in b + 1 .. e - 1}
      ELSE {} )

\* One sweep of one colour handed out to workers as calls on the ranges of
\* a slicing (parallel build); the calls then run in any order, one's passes
\* between another's.
SlicedInit ==
    /\ dims \in Shapes
    /\ spacing \in Spacings
    /\ useTbb = TRUE
    /\ boundaryCondition \in {BC_NEUMANN, BC_DIRICHLET}
    /\ numSteps = 1
    /\ soln \in {SeedGrid(dims[1] * dims[2] * dims[3], k) : k \in 1 .. MaxSeed}
    /\ lap = SourceGrid(dims[1] * dims[2] * dims[3], 2)
    /\ soln0 = soln
    /\ lap0 = lap
    /\ iter = 0
    /\ pc = "sweep"
    /\ \E ranges \in Slicings(0, dims[3], MaxWorkers), redOrBlack \in Portions :
           /\ tasks = NewTasks(ranges, redOrBlack)
           /\ phase = NewPhases(ranges)
    /\ residualStats = ResetStats
    /\ scalarVals = << >>
    /\ gradientGrid = << >>
    /\ gradientGrid0 = << >>
    /\ gradPc = "idle"
    /\ written = {}
    /\ faceWr = {}
    /\ vec = << >>
    /\ outDims = dims
    /\ jacobian = << >>
    /\ curlDims = dims
    /\ curl = << >>
    /\ laplacian = << >>
    /\ valMin = 0
    /\ valMax = 0

SlicedSpec == SlicedInit /\ [][SweepNext]_vars

\* ------------------------------------------------------------------------
\* Inputs of the gradient operators
\* ------------------------------------------------------------------------
\* Scalar fields: kind 0 is the linear field f(i,j,k) = i, the others are
\* seeded sample patterns.
ScalarField(size, dx, kind) ==
    [o \in 0 .. size - 1 |-> IF kind = 0 THEN o % dx ELSE Sample(o, kind)]

\* Field f with the samples at the offsets in nans replaced by the sentinel.
WithInvalid(f, nans) ==
    [o \in DOMAIN f |-> IF o \in nans THEN UNIFORM_GRID_INVALID_VALUE ELSE f[o]]

\* Sets of at most one invalid offset, or one invalid pair around the centre.
InvalidSets(size) ==
    {{}} \cup {{o} : o \in 0 .. size - 1} \cup
    {{o, size - 1 - o} : o \in 0 .. size - 1}

GradInit ==
    /\ dims \in Shapes
    /\ spacing \in Spacings
    /\ useTbb \in BOOLEAN
    /\ boundaryCondition = BC_NEUMANN
    /\ numSteps = 0
    /\ soln = << >>
    /\ soln0 = << >>
    /\ lap = << >>
    /\ lap0 = << >>
    /\ iter = 0
    /\ pc = "idle"
    /\ tasks = << >>
    /\ phase = << >>
    /\ residualStats = ResetStats
    /\ \E kind \in 0 .. MaxKind,
          nans \in InvalidSets(dims[1] * dims[2] * dims[3]) :
           scalarVals = WithInvalid(
               ScalarField(dims[1] * dims[2] * dims[3], dims[1], kind), nans)
    /\ gradientGrid = SeedGrid(dims[1] * dims[2] * dims[3], 1)
    /\ gradientGrid0 = gradientGrid
    /\ gradPc = "start"
    /\ written = {}
    /\ faceWr = {}
    /\ vec = << >>
    /\ outDims = dims
    /\ jacobian = << >>
    /\ curlDims = dims
    /\ curl = << >>
    /\ laplacian = << >>
    /\ valMin = 0
    /\ valMax = 0

GradNext ==
    \/ ComputeGradientInterior
    \/ ComputeGradientFaces
    \/ ComputeGradientConditionally

GradSpec == GradInit /\ [][GradNext]_vars

\* ------------------------------------------------------------------------
\* Inputs of the gradient operators on degenerate domains
\* ------------------------------------------------------------------------
\* Cell spacings of grids that are flat along one axis, or along none.
FlatSpacings == Spacings \cup {<<0, 1, 1>>, <<1, 0, 1>>}

FlatInit ==
    /\ dims \in Shapes
    /\ spacing \in FlatSpacings
    /\ useTbb \in BOOLEAN
    /\ boundaryCondition = BC_NEUMANN
    /\ numSteps = 0
    /\ soln = << >>
    /\ soln0 = << >>
    /\ lap = << >>
    /\ lap0 = << >>
    /\ iter = 0
    /\ pc = "idle"
    /\ tasks = << >>
    /\ phase = << >>
    /\ residualStats = ResetStats
    /\ \E kind \in 0 .. MaxKind :
           scalarVals = ScalarField(dims[1] * dims[2] * dims[3], dims[1], kind)
    /\ gradientGrid = SeedGrid(dims[1] * dims[2] * dims[3], 1)
    /\ gradientGrid0 = gradientGrid
    /\ gradPc = "start"
    /\ written = {}
    /\ faceWr = {}
    /\ vec = << >>
    /\ outDims = dims
    /\ jacobian = << >>
    /\ curlDims = dims
    /\ curl = << >>
    /\ laplacian = << >>
    /\ valMin = 0
    /\ valMax = 0

FlatSpec == FlatInit /\ [][GradNext]_vars

\* ------------------------------------------------------------------------
\* Inputs of the vector operators
\* ------------------------------------------------------------------------
\* Shapes with two points on one axis are too small for a second difference.
SmallShapes == {<<2, 3, 3>>, <<3, 2, 3>>, <<3, 3, 2>>}

OpShapes == Shapes \cup {<<4, 3, 3>>} \cup SmallShapes

\* Shapes of an output grid that does not match input shape d (and holds at
\* least as many samples).
Mismatches(d) == {<<d[1] + 1, d[2], d[3]>>, <<d[1], d[2], d[3] + 1>>}

\* <<shape of the first output grid, shape of the curl grid>>.
ShapePairs(d) ==
    {<<d, d>>} \cup {<<m, d>> : m \in Mismatches(d)}
               \cup {<<d, m>> : m \in Mismatches(d)}

ConstantGrid(size, c) == [o \in 0 .. size - 1 |-> c]

ConstantVectors == {<<0, 0, 0>>, <<100, -200, 300>>}

Cross(u, v) ==
    <<u[2] * v[3] - u[3] * v[2], u[3] * v[1] - u[1] * v[3],
      u[1] * v[2] - u[2] * v[1]>>

\* Position of grid point idx, in units of 1 / SpacingDen.
PositionOf(idx) ==
    <<idx[1] * spacing[1], idx[2] * spacing[2], idx[3] * spacing[3]>>

\* The rotation field v = w x r sampled on the grid, for the angular
\* velocity w: with positions in units of 1 / SpacingDen the samples are
\* those of SpacingDen * w.
RotationField(w) ==
    [o \in 0 .. GridSize - 1 |-> Cross(w, PositionOf(IndexOf(o)))]

AngularVelocities == {<<0, 0, 1>>, <<1, 0, 0>>, <<0, 1, 0>>, <<1, -2, 3>>}

\* The field whose three components are the square of the index along
\* axis a.
QuadraticField(a) ==
    [o \in 0 .. GridSize - 1 |->
        <<IndexOf(o)[a] * IndexOf(o)[a], IndexOf(o)[a] * IndexOf(o)[a],
          IndexOf(o)[a] * IndexOf(o)[a]>>]

VecFields ==
    {ConstantGrid(GridSize, c) : c \in ConstantVectors} \cup
    {QuadraticField(a) : a \in 1 .. 3} \cup
    {RotationField(w) : w \in AngularVelocities} \cup
    {SeedGrid(GridSize, k) : k \in 1 .. MaxSeed}

\* Content of an output grid before the call.
StaleGrid(size) == SeedGrid(size, 1)

StaleJacobian(size) ==
    [o \in 0 .. size - 1 |->
        <<StaleGrid(size)[o], StaleGrid(size)[o], StaleGrid(size)[o]>>]

OpInit ==
    /\ dims \in OpShapes
    /\ spacing \in Spacings
    /\ useTbb \in BOOLEAN
    /\ boundaryCondition = BC_NEUMANN
    /\ numSteps = 0
    /\ soln = << >>
    /\ soln0 = << >>
    /\ lap = << >>
    /\ lap0 = << >>
    /\ iter = 0
    /\ pc = "idle"
    /\ tasks = << >>
    /\ phase = << >>
    /\ residualStats = ResetStats
    /\ faceWr = {}
    /\ \E pr \in ShapePairs(dims) : outDims = pr[1] /\ curlDims = pr[2]
    /\ \E kind \in 0 .. MaxKind :
           scalarVals = ScalarField(GridSize, dims[1], kind)
    /\ vec \in VecFields
    /\ gradientGrid = StaleGrid(outDims[1] * outDims[2] * outDims[3])
    /\ gradientGrid0 = gradientGrid
    /\ laplacian = StaleGrid(outDims[1] * outDims[2] * outDims[3])
    /\ jacobian = StaleJacobian(outDims[1] * outDims[2] * outDims[3])
    /\ curl = StaleGrid(curlDims[1] * curlDims[2] * curlDims[3])
    /\ written = {}
    /\ valMin = 0
    /\ valMax = 0
    /\ gradPc = "start"

OpNext ==
    \/ ComputeGradientInterior
    \/ ComputeGradientFaces
    \/ ComputeGradientAborts
    \/ ComputeJacobian
    \/ ComputeJacobianAborts
    \/ ComputeCurlFromJacobian
    \/ ComputeLaplacian
    \/ ComputeLaplacianAborts

OpSpec == OpInit /\ [][OpNext]_vars

\* ------------------------------------------------------------------------
\* Inputs of FindValueRange
\* ------------------------------------------------------------------------
RangeShapes == {<<1, 1, 1>>, <<2, 1, 3>>, <<1, 4, 2>>, <<2, 2, 2>>, <<3, 3, 3>>}

\* The values 0 .. size-1, each once, starting at offset c; and reversed.
IotaGrid(size, c) == [o \in 0 .. size - 1 |-> (o + size - c) % size]

ReversedIota(size) == [o \in 0 .. size - 1 |-> size - 1 - o]

Biases == {-2000, -500, 0, 300}

\* Scalar grids without invalid samples.
RangeFields(size) ==
    {IotaGrid(size, c) : c \in 0 .. Min2(2, size - 1)} \cup
    {ReversedIota(size)} \cup
    {[o \in 0 .. size - 1 |-> Sample(o, k) + b] :
         k \in 1 .. MaxKind + 1, b \in Biases}

RangeInit ==
    /\ dims \in RangeShapes
    /\ spacing \in Spacings
    /\ useTbb = FALSE
    /\ boundaryCondition = BC_NEUMANN
    /\ numSteps = 0
    /\ soln = << >>
    /\ soln0 = << >>
    /\ lap = << >>
    /\ lap0 = << >>
    /\ iter = 0
    /\ pc = "idle"
    /\ tasks = << >>
    /\ phase = << >>
    /\ residualStats = ResetStats
    /\ faceWr = {}
    /\ scalarVals \in RangeFields(GridSize)
    /\ gradientGrid = << >>
    /\ gradientGrid0 = << >>
    /\ written = {}
    /\ vec = << >>
    /\ outDims = dims
    /\ jacobian = << >>
    /\ curlDims = dims
    /\ curl = << >>
    /\ laplacian = << >>
    /\ valMin \in {0, 7}
    /\ valMax = valMin
    /\ gradPc = "start"

RangeNext == FindValueRange

RangeSpec == RangeInit /\ [][RangeNext]_vars

\* ------------------------------------------------------------------------
\* Properties
\* ------------------------------------------------------------------------
\* The grid container's flat addressing x + dims.x*y + dims.x*dims.y*z.
FlatOffset(idx) == idx[1] + dims[1] * idx[2] + dims[1] * dims[2] * idx[3]

OnBoundary(idx) == \E a \in 1 .. 3 : idx[a] = 0 \/ idx[a] = dims[a] - 1

\* Each index clamped into [1, dims[a]-2].
ClampedInward(idx) ==
    [a \in 1 .. 3 |-> IF idx[a] < 1 THEN 1
                      ELSE IF idx[a] > dims[a] - 2 THEN dims[a] - 2
                      ELSE idx[a]]

RoundComplete == pc \in {"loop", "done"} /\ iter >= 1

\* C1: under Neumann, after every complete round (red sweep then black
\* sweep) every boundary sample of the solution equals its adjacent
\* interior sample.
C1_NeumannBoundaryEqualsInterior ==
    (boundaryCondition = BC_NEUMANN /\ RoundComplete) =>
        \A idx \in AllPoints :
            OnBoundary(idx) =>
                soln[FlatOffset(idx)] = soln[FlatOffset(ClampedInward(idx))]

\* C2: under Dirichlet no boundary sample of the solution is ever written:
\* each still holds the value the caller supplied.
C2_DirichletBoundaryUntouched ==
    (boundaryCondition = BC_DIRICHLET /\ pc # "idle") =>
        \A idx \in AllPoints :
            OnBoundary(idx) => soln[FlatOffset(idx)] = soln0[FlatOffset(idx)]

C2_Witness ==
    /\ boundaryCondition = BC_DIRICHLET
    /\ pc = "done"
    /\ iter >= 1
    /\ soln # soln0
    /\ \E idx \in AllPoints :
           /\ OnBoundary(idx)
           /\ soln[FlatOffset(idx)] # <<0, 0, 0>>
           /\ soln[FlatOffset(idx)] # soln[FlatOffset(ClampedInward(idx))]

\* Rounds SolveVectorPoisson is to run for its arguments.
ExpectedRounds ==
    IF numSteps > 0 THEN numSteps
    ELSE 2 * (CHOOSE m \in {dims[1], dims[2], dims[3]} :
                  \A a \in 1 .. 3 : dims[a] <= m)

\* C3: SolveVectorPoisson runs exactly numSteps rounds, or 2 * max(dims)
\* rounds when numSteps is 0, whatever the grids hold, and then returns.
C3_RunsExactlyTheBudget ==
    /\ [](iter <= ExpectedRounds /\ (pc = "done" => iter = ExpectedRounds))
    /\ <>(pc = "done")

C3_Witness == pc = "done" /\ numSteps = 0 /\ iter > MaxSteps /\ soln # soln0

InProgress(i) == phase[i] # "done"

HasBegun(i) == phase[i] # "interior"

\* C4: a red update and a black update are never both in progress: every
\* invocation of one colour has returned before one of the other colour
\* begins.
C4_SweepsNeverOverlap ==
    \A i, j \in 1 .. Len(tasks) :
        tasks[i].redOrBlack # tasks[j].redOrBlack =>
            ~ (InProgress(i) /\ HasBegun(j))

C4_Witness ==
    /\ pc = "black"
    /\ Len(tasks) > 1
    /\ \E i, j \in 1 .. Len(tasks) :
           /\ phase[i] = "boundary"
           /\ phase[j] = "interior"
           /\ tasks[i].redOrBlack = GS_BLACK

\* C5: within one sweep run by several workers on disjoint z-ranges, no
\* worker reads a solution sample that another worker writes.
C5_NoReadWriteRace ==
    \A i, j \in 1 .. Len(tasks) :
        i # j => tasks[i].rd \cap tasks[j].wr = {}

\* C6: the samples a worker writes all have their z index inside that
\* worker's own [izStart, izEnd), so the workers' write sets are pairwise
\* disjoint, and the source grid is never written.
C6_WritesStayInOwnSlice ==
    /\ \A i \in 1 .. Len(tasks) :
           \A o \in tasks[i].wr :
               /\ o \div (dims[1] * dims[2]) >= tasks[i].izStart
               /\ o \div (dims[1] * dims[2]) < tasks[i].izEnd
    /\ \A i, j \in 1 .. Len(tasks) :
           i # j => tasks[i].wr \cap tasks[j].wr = {}
    /\ lap = lap0

C6_Witness ==
    /\ boundaryCondition = BC_NEUMANN
    /\ Len(tasks) > 1
    /\ \A i \in 1 .. Len(tasks) :
           /\ phase[i] = "done"
           /\ \E o \in tasks[i].wr : o \div (dims[1] * dims[2]) = tasks[i].izStart
           /\ \E o \in tasks[i].wr :
                  o \div (dims[1] * dims[2]) = tasks[i].izEnd - 1

Valid(v) == v # NaN

\* C7: ComputeGradientConditionally marks the gradient invalid on all three
\* axes at every point whose input sample is invalid.
C7_InvalidPointHasInvalidGradient ==
    gradPc = "conditionalDone" =>
        \A idx \in AllPoints :
            ~ Valid(scalarVals[FlatOffset(idx)]) =>
                \A a \in 1 .. 3 : ~ Valid(gradientGrid[FlatOffset(idx)][a])

\* Index triple idx moved by d steps along axis a.
Shifted(idx, a, d) == [idx EXCEPT ![a] = @ + d]

\* The neighbour d steps along axis a is inside the grid and valid.
ValidNeighbour(idx, a, d) ==
    /\ idx[a] + d >= 0
    /\ idx[a] + d <= dims[a] - 1
    /\ Valid(scalarVals[FlatOffset(Shifted(idx, a, d))])

\* g is diff * k / spacing[a] (k = 1: one-sided, k = 1/2 given as halves = 2),
\* the reciprocal of a degenerate spacing being 0.
IsDifference(g, diff, a, halves) ==
    /\ Valid(g)
    /\ IF spacing[a] = 0 THEN g = 0
       ELSE halves * g * spacing[a] = diff * SpacingDen

\* C8: at a valid point, on each axis whose two immediate neighbours are
\* in-bounds and valid, ComputeGradientConditionally stores the centered
\* difference (f[+1] - f[-1]) * 0.5/spacing[a].
C8_CenteredWhenBothNeighboursValid ==
    gradPc = "conditionalDone" =>
        \A idx \in AllPoints : \A a \in 1 .. 3 :
            ( /\ Valid(scalarVals[FlatOffset(idx)])
              /\ ValidNeighbour(idx, a, -1)
              /\ ValidNeighbour(idx, a, 1) ) =>
                IsDifference(gradientGrid[FlatOffset(idx)][a],
                             scalarVals[FlatOffset(Shifted(idx, a, 1))]
                               - scalarVals[FlatOffset(Shifted(idx, a, -1))],
                             a, 2)

\* C9: at a valid point, on each axis where exactly one immediate neighbour
\* is in-bounds and valid, ComputeGradientConditionally stores the one-sided
\* difference between that neighbour and the point times 1/spacing[a].
C9_OneSidedWhenOneNeighbourValid ==
    gradPc = "conditionalDone" =>
        \A idx \in AllPoints : \A a \in 1 .. 3 : \A d \in {-1, 1} :
            ( /\ Valid(scalarVals[FlatOffset(idx)])
              /\ ValidNeighbour(idx, a, d)
              /\ ~ ValidNeighbour(idx, a, 0 - d) ) =>
                IsDifference(gradientGrid[FlatOffset(idx)][a],
                             d * (scalarVals[FlatOffset(Shifted(idx, a, d))]
                                    - scalarVals[FlatOffset(idx)]),
                             a, 1)

\* The scalar input is the linear field f(i, j, k) = i.
LinearInX == \A idx \in AllPoints : scalarVals[FlatOffset(idx)] = idx[1]

\* C10: for the linear field f(i,j,k) = i, ComputeGradient writes
\* (1/spacing.x, 0, 0) at every grid point, boundary points included.
C10_GradientOfLinearField ==
    (gradPc = "gradientDone" /\ LinearInX) =>
        \A idx \in AllPoints :
            /\ gradientGrid[FlatOffset(idx)][1] * spacing[1] = SpacingDen
            /\ gradientGrid[FlatOffset(idx)][2] = 0
            /\ gradientGrid[FlatOffset(idx)][3] = 0

C10_Witness ==
    /\ gradPc = "gradientDone"
    /\ LinearInX
    /\ \A idx \in AllPoints :
           gradientGrid[FlatOffset(idx)] # gradientGrid0[FlatOffset(idx)]

\* Every sample of grid g is the same vector.
IsConstantGrid(g) == \A o \in DOMAIN g : g[o] = g[0]

\* C11: for a vector field holding the same vector at every grid point,
\* ComputeLaplacian writes the zero vector at every grid point, interior
\* and boundary alike.
C11_LaplacianOfConstantField ==
    (gradPc = "laplacianDone" /\ IsConstantGrid(vec)) =>
        \A idx \in AllPoints : laplacian[FlatOffset(idx)] = <<0, 0, 0>>

C11_Witness ==
    /\ gradPc = "laplacianDone"
    /\ IsConstantGrid(vec)
    /\ vec[0] # <<0, 0, 0>>
    /\ \A a \in 1 .. 3 : dims[a] >= 3 /\ spacing[a] > 0
    /\ written = {FlatOffset(idx) : idx \in AllPoints}

\* Interior points: no index on the first or the last plane of its axis.
IsInterior(idx) == \A a \in 1 .. 3 : idx[a] >= 1 /\ idx[a] <= dims[a] - 2

\* The curl grid holds, at the interior points, the components in axes of
\* twice the angular velocity the samples of RotationField(w) stand for.
CurlIsTwiceOmega(w, axes) ==
    \A idx \in AllPoints :
        IsInterior(idx) =>
            \A a \in axes : curl[FlatOffset(idx)][a] = 2 * SpacingDen * w[a]

\* C12 as stated: for a pure rotation field v = w x r sampled on the grid,
\* ComputeCurlFromJacobian applied to the output of ComputeJacobian yields
\* 2w at every interior grid point.
C12_CurlOfRotationField ==
    (gradPc = "curlDone" /\ ShapeMatches(curlDims, dims)) =>
        \A w \in AngularVelocities :
            vec = RotationField(w) => CurlIsTwiceOmega(w, {1, 2, 3})

\* C12, amended: the curl is 2w at every interior grid point on a grid
\* whose spacing is not degenerate on any axis; on a grid of degenerate z
\* spacing, where the derivatives along z are taken to be 0, only the
\* z component of the curl is that of 2w.
C12_CurlOfRotationFieldIn3D ==
    (gradPc = "curlDone" /\ ShapeMatches(curlDims, dims)) =>
        \A w \in AngularVelocities :
            vec = RotationField(w) =>
                CurlIsTwiceOmega(w, IF spacing[3] > 0 THEN {1, 2, 3} ELSE {3})

C12_Witness ==
    /\ gradPc = "curlDone"
    /\ ShapeMatches(curlDims, dims)
    /\ vec = RotationField(<<1, -2, 3>>)
    /\ spacing[3] > 0
    /\ dims = <<4, 3, 3>>
    /\ \E idx \in AllPoints :
           IsInterior(idx) /\ curl[FlatOffset(idx)] = VScale(2 * SpacingDen, <<1, -2, 3>>)

\* The caller's solution grid satisfies the discrete 7-point equation with
\* the caller's source at every interior point and, under Neumann, holds at
\* every boundary point the sample of the adjacent interior point.
IsExactSolution ==
    /\ \A idx \in AllPoints :
           IsInterior(idx) =>
               LET d2(a) ==
                       LET p == FlatOffset(Shifted(idx, a, 1))
                           m == FlatOffset(Shifted(idx, a, -1))
                       IN  VScale(reciprocalSpacing2[a],
                                  VSub(VAdd(soln0[p], soln0[m]),
                                       VScale(2, soln0[FlatOffset(idx)])))
               IN  VAdd(VAdd(d2(1), d2(2)), d2(3)) = lap0[FlatOffset(idx)]
    /\ boundaryCondition = BC_NEUMANN =>
           \A idx \in AllPoints :
               soln0[FlatOffset(idx)] = soln0[FlatOffset(ClampedInward(idx))]

C14_RangeIsMinAndMax ==
    gradPc = "rangeDone" =>
        /\ \E o \in DOMAIN scalarVals : valMin = scalarVals[o]
        /\ \E o \in DOMAIN scalarVals : valMax = scalarVals[o]
        /\ \A o \in DOMAIN scalarVals :
               valMin <= scalarVals[o] /\ scalarVals[o] <= valMax

\* A grid holding 0 .. N-1 out of order yields (0, N-1).
C14_Witness ==
    /\ gradPc = "rangeDone"
    /\ dims = <<3, 3, 3>>
    /\ scalarVals = IotaGrid(27, 2)
    /\ valMin = 0
    /\ valMax = 26

\* C15: an operator handed an output grid whose shape differs from that of
\* its input grid fails its assertion before it writes any output sample:
\* the call never completes and the output grid keeps its content.
C15_MismatchedShapesAbort ==
    /\ ~ ShapeMatches(outDims, dims) =>
           /\ gradPc \in {"start", "aborted"}
           /\ written = {}
           /\ gradientGrid = gradientGrid0
           /\ laplacian = StaleGrid(outDims[1] * outDims[2] * outDims[3])
           /\ jacobian = StaleJacobian(outDims[1] * outDims[2] * outDims[3])
    /\ ~ ShapeMatches(curlDims, dims) =>
           /\ gradPc # "curlDone"
           /\ curl = StaleGrid(curlDims[1] * curlDims[2] * curlDims[3])

\* C16: on an input grid with fewer than 3 points along some axis
\* ComputeLaplacian never completes and leaves the output grid as it was:
\* it stops at its assertion.
C16_LaplacianNeedsThreePoints ==
    (gradPc # "idle" /\ \E a \in 1 .. 3 : dims[a] < 3) =>
        /\ gradPc # "laplacianDone"
        /\ laplacian = StaleGrid(outDims[1] * outDims[2] * outDims[3])

\* The assertion on the number of points, not the one on the shapes, has
\* stopped a call.
C16_Witness ==
    /\ gradPc = "aborted"
    /\ ShapeMatches(outDims, dims)
    /\ dims = <<3, 3, 2>>
    /\ written = {}

\* An operator has returned from a call with a shape-matching output grid.
OperatorDone ==
    \/ gradPc \in {"gradientDone", "jacobianDone", "laplacianDone"}
    \/ gradPc = "curlDone" /\ ShapeMatches(curlDims, dims)

\* C17: on a grid with at least 3 points per axis ComputeGradient,
\* ComputeJacobian, ComputeLaplacian and ComputeCurlFromJacobian each write
\* every sample of the output grid: after the call no offset of the grid is
\* left unwritten.
C17_EveryOutputSampleWritten ==
    (OperatorDone /\ \A a \in 1 .. 3 : dims[a] >= 3) =>
        written = 0 .. dims[1] * dims[2] * dims[3] - 1

C17_Witness ==
    /\ gradPc = "jacobianDone"
    /\ dims = <<4, 3, 3>>
    /\ Cardinality(written) = 36
    /\ \A o \in DOMAIN jacobian : jacobian[o] # StaleJacobian(36)[o]

\* The interior points of the grid whose z index lies in the clamped range
\* of task t.
InteriorInRange(t) ==
    {idx \in AllPoints :
        /\ idx[1] \in 1 .. dims[1] - 2
        /\ idx[2] \in 1 .. dims[2] - 2
        /\ idx[3] >= Max2(1, t.izStart)
        /\ idx[3] < Min2(dims[3] - 1, t.izEnd)}

\* The set of points the claim says a sweep of colour c updates.
UpdateSet(t, c) ==
    {FlatOffset(idx) : idx \in
        {p \in InteriorInRange(t) :
            c = GS_BOTH \/ (p[3] + p[2]) % 2 = c}}

ColourOf(o) == (IndexOf(o)[3] + IndexOf(o)[2]) % 2

\* The six axis neighbours the update of the point at offset o reads.
NeighboursOf(o) == StencilReads(IndexOf(o)) \ {o}

\* C19: in a Red or Black sweep every axis neighbour read by the update of
\* an interior point has the other colour, and none of them was written by
\* an earlier interior update of the same sweep (the loops run in ascending
\* offset).
C19_NeighboursHaveOtherColour ==
    \A i \in 1 .. Len(tasks) :
        (phase[i] = "boundary" /\ tasks[i].redOrBlack \in {GS_RED, GS_BLACK}) =>
            \A o \in tasks[i].wr : \A n \in NeighboursOf(o) :
                /\ ColourOf(n) # ColourOf(o)
                /\ ~ (n \in tasks[i].wr /\ n < o)


\* C20: under BC_NEUMANN, when a round (red sweep, then black sweep, over
\* the full z-range) is complete, every boundary point of the six faces has
\* been written by a boundary pass of that round; a boundary pass that has
\* just run after its interior pass leaves each point it writes equal to
\* the adjacent interior point; and no boundary pass writes an interior
\* point.
C20_EveryFacePointOverwrittenEachRound ==
    /\ (boundaryCondition = BC_NEUMANN /\ RoundComplete) =>
           \A idx \in AllPoints :
               OnBoundary(idx) => FlatOffset(idx) \in faceWr
    /\ \A i \in 1 .. Len(tasks) :
           (boundaryCondition = BC_NEUMANN /\ ~ useTbb /\ phase[i] = "done") =>
               \A idx \in BoundaryPoints(tasks[i]) :
                   soln[FlatOffset(idx)] = soln[FlatOffset(ClampedInward(idx))]
    /\ \A idx \in AllPoints :
           FlatOffset(idx) \in faceWr => OnBoundary(idx)


\* The samples of the scalar input at idx and at its in-bounds neighbours
\* along axis a are all valid.
StencilValid(idx, a) ==
    /\ Valid(scalarVals[FlatOffset(idx)])
    /\ idx[a] > 0 => Valid(scalarVals[FlatOffset(Shifted(idx, a, -1))])
    /\ idx[a] < dims[a] - 1 => Valid(scalarVals[FlatOffset(Shifted(idx, a, 1))])

\* Component a of the gradient stored at idx is the centered difference.
IsCenteredAt(idx, a) ==
    IsDifference(gradientGrid[FlatOffset(idx)][a],
                 scalarVals[FlatOffset(Shifted(idx, a, 1))]
                   - scalarVals[FlatOffset(Shifted(idx, a, -1))],
                 a, 2)

\* The step along axis a from a boundary point to its single in-bounds
\* neighbour.
Inward(idx, a) == IF idx[a] = 0 THEN 1 ELSE -1

\* C21 (as stated): ComputeGradient stores, per axis a, the centered
\* difference (f[+1] - f[-1]) * 0.5/spacing[a] where the index along a is
\* neither 0 nor dims[a]-1, and (f[adj] - f[self]) * 1/spacing[a] where it is
\* 0 or dims[a]-1, adj being the single in-bounds neighbour along a.
C21_GradientStencilPerAxis ==
    gradPc = "gradientDone" =>
        \A idx \in AllPoints : \A a \in 1 .. 3 :
            StencilValid(idx, a) =>
                IF idx[a] \in 1 .. dims[a] - 2
                THEN IsCenteredAt(idx, a)
                ELSE IsDifference(
                         gradientGrid[FlatOffset(idx)][a],
                         scalarVals[FlatOffset(Shifted(idx, a, Inward(idx, a)))]
                           - scalarVals[FlatOffset(idx)],
                         a, 1)

\* C21 (amended): as above, but the one-sided difference is the forward
\* difference (f[+1] - f[self]) * 1/spacing[a] at index 0 and the backward
\* difference (f[self] - f[-1]) * 1/spacing[a] at index dims[a]-1.
C21_GradientStencilForwardBackward ==
    gradPc = "gradientDone" =>
        \A idx \in AllPoints : \A a \in 1 .. 3 :
            StencilValid(idx, a) =>
                IF idx[a] \in 1 .. dims[a] - 2
                THEN IsCenteredAt(idx, a)
                ELSE IsDifference(
                         gradientGrid[FlatOffset(idx)][a],
                         Inward(idx, a) *
                           (scalarVals[FlatOffset(Shifted(idx, a, Inward(idx, a)))]
                              - scalarVals[FlatOffset(idx)]),
                         a, 1)

\* ComputeGradient has run on an all-valid field of a 3x4x3 grid whose
\* face point (0, 1, 1) has a non-zero forward difference along x and a
\* non-zero centered difference along y, and whose face point (2, 1, 1) has
\* a non-zero backward difference along x.
C21_Witness ==
    /\ gradPc = "gradientDone"
    /\ dims = <<3, 4, 3>>
    /\ \A o \in DOMAIN scalarVals : Valid(scalarVals[o])
    /\ gradientGrid[FlatOffset(<<0, 1, 1>>)][1] # 0
    /\ gradientGrid[FlatOffset(<<0, 1, 1>>)][2] # 0
    /\ gradientGrid[FlatOffset(<<2, 1, 1>>)][1] # 0
    /\ scalarVals[FlatOffset(<<0, 0, 1>>)] # scalarVals[FlatOffset(<<0, 2, 1>>)]


\* Component b of vector field v, as a scalar field.
ComponentField(v, b) == [o \in DOMAIN v |-> v[o][b]]

\* C22: at every point p, for every axis a and component b, jacobian[p].a.b
\* equals component a of what ComputeGradient stores at p for the scalar
\* field v.b.
C22_JacobianAgreesWithGradient ==
    gradPc = "jacobianDone" =>
        \A o \in DOMAIN jacobian : \A a \in 1 .. 3 : \A b \in 1 .. 3 :
            jacobian[o][a][b] =
                ComputeGradient(gradientGrid, ComponentField(vec, b))[o][a]

\* ComputeJacobian has run on a 4x3x3 field; at a face point and at an
\* interior point it stored rows that are not zero.
C22_Witness ==
    /\ gradPc = "jacobianDone"
    /\ dims = <<4, 3, 3>>
    /\ jacobian[FlatOffset(<<0, 1, 1>>)][1] # <<0, 0, 0>>
    /\ jacobian[FlatOffset(<<3, 1, 1>>)][1] # <<0, 0, 0>>
    /\ jacobian[FlatOffset(<<1, 1, 1>>)][2] # <<0, 0, 0>>
    /\ jacobian[FlatOffset(<<1, 1, 1>>)] # StaleJacobian(GridSize)[FlatOffset(<<1, 1, 1>>)]


\* The second difference of vec along axis a the claim names for point idx,
\* times 1 / spacing[a]^2 (0 for a degenerate axis).
ExpectedSecondDifference(idx, a) ==
    LET f(d) == vec[FlatOffset(Shifted(idx, a, d))]
        rs2  == IF spacing[a] > 0
                THEN (SpacingDen \div spacing[a]) * (SpacingDen \div spacing[a])
                ELSE 0
    IN  VScale(rs2,
               IF idx[a] = 0
               THEN VSub(VAdd(f(0), f(2)), VScale(2, f(1)))
               ELSE IF idx[a] = dims[a] - 1
               THEN VSub(VAdd(f(0), f(-2)), VScale(2, f(-1)))
               ELSE VSub(VAdd(f(1), f(-1)), VScale(2, f(0))))

\* vec is the field that is quadratic along one axis.
IsQuadratic == \E a \in 1 .. 3 : vec = QuadraticField(a)

\* C23: ComputeLaplacian stores at every point the sum over the three axes
\* of the per-axis second difference over spacing[a]^2: centered where the
\* index along a is neither 0 nor dims[a]-1, one-sided reaching two steps
\* inward where it is; and a field quadratic along one axis gives the same
\* value at every interior and boundary point.
C23_LaplacianStencilPerAxis ==
    gradPc = "laplacianDone" =>
        /\ \A idx \in AllPoints :
               laplacian[FlatOffset(idx)] =
                   VAdd(VAdd(ExpectedSecondDifference(idx, 1),
                             ExpectedSecondDifference(idx, 2)),
                        ExpectedSecondDifference(idx, 3))
        /\ IsQuadratic => IsConstantGrid(laplacian)

\* ComputeLaplacian has run on a 4x3x3 grid on a field whose corner (0,0,0)
\* has a non-zero second difference on each of the three axes and whose
\* face point (3,1,1) has a non-zero one on x.
C23_Witness ==
    /\ gradPc = "laplacianDone"
    /\ dims = <<4, 3, 3>>
    /\ \A a \in 1 .. 3 :
           ExpectedSecondDifference(<<0, 0, 0>>, a) # <<0, 0, 0>>
    /\ ExpectedSecondDifference(<<3, 1, 1>>, 1) # <<0, 0, 0>>
    /\ laplacian[0] # StaleGrid(GridSize)[0]


\* C24: when an operator that uses the cell spacing has run, for each axis
\* a whose spacing is <= the small epsilon the reciprocal (and half
\* reciprocal) it used is 0, not the quotient of a division by that
\* spacing, and the component of the result along that axis is 0 at every
\* point the operator has written.
C24_DegenerateAxisContributesZero ==
    gradPc \in {"gradientDone", "conditionalDone"} =>
        \A a \in 1 .. 3 :
            spacing[a] = 0 =>
                /\ reciprocalSpacing[a] = 0
                /\ halfReciprocalSpacing[a] = 0
                /\ \A o \in written : gradientGrid[o][a] = 0


\* The grid a single call on [0, dims.z) with portion redOrBlack leaves when
\* started on the caller's grid: the interior loop nest, then every point
\* the face loops visit holds the sample of its adjacent interior point
\* (the face loops read interior points only and write boundary points
\* only).
SingleCall(redOrBlack) ==
    LET whole    == [izStart |-> 0, izEnd |-> dims[3], redOrBlack |-> redOrBlack]
        interior == SolveInterior([s |-> soln0, st |-> ResetStats, n |-> 0],
                                  InteriorPoints(0, dims[3], redOrBlack)).s
    IN  [o \in DOMAIN soln0 |->
            IF IndexOf(o) \in BoundaryPoints(whole)
            THEN interior[offsetInterior(IndexOf(o))]
            ELSE interior[o]]

\* C25: when the calls of one colour's sweep on consecutive z-ranges that
\* cover [0, dims.z) have all returned, whatever their order, the solution
\* grid is the one a single call on [0, dims.z) leaves.
C25_SweepIndependentOfSlicing ==
    (pc = "sweep" /\ AllJoined(phase)) =>
        soln = SingleCall(tasks[1].redOrBlack)

\* The update magnitude |new - old| of the sample at offset o, for a point
\* relaxed once since the caller's grid was handed over.
UpdateMagnitude(o) == Magnitude(VSub(soln[o], soln0[o]))

RECURSIVE SumOfMagnitudes(_, _)
\* Sum over the offsets S of the update magnitude raised to the power e.
SumOfMagnitudes(S, e) ==
    IF S = {} THEN 0
    ELSE LET o == CHOOSE q \in S : TRUE
             r == UpdateMagnitude(o)
         IN  (IF e = 2 THEN r * r ELSE r) + SumOfMagnitudes(S \ {o}, e)

\* Sum, sum of squares, least and greatest update magnitude over the
\* offsets S, as tallied before the division by the count.
RawStatisticsOver(S) ==
    LET R == {UpdateMagnitude(o) : o \in S}
    IN  [mMean   |-> SumOfMagnitudes(S, 1),
         mStdDev |-> SumOfMagnitudes(S, 2),
         mMin    |-> IF S = {} THEN FLT_MAX
                     ELSE CHOOSE r \in R : \A q \in R : r <= q,
         mMax    |-> IF S = {} THEN 0 - FLT_MAX
                     ELSE CHOOSE r \in R : \A q \in R : r >= q]

\* The statistics of the update magnitudes over the offsets S: mean and
\* deviation once the sweep has returned; the reset values when S is empty.
StatisticsOver(S) ==
    LET raw  == RawStatisticsOver(S)
        n    == Cardinality(S)
        mean == IF n = 0 THEN 0 ELSE RoundDiv(raw.mMean, n)
        dev  == IF n = 0 THEN 0
                ELSE fsqrtf(RoundDiv(raw.mStdDev, n) - mean * mean)
    IN  [mMean |-> mean, mStdDev |-> dev, mMin |-> raw.mMin, mMax |-> raw.mMax]

\* The interior points of colour c of the whole grid.
ColourSet(c) == UpdateSet([izStart |-> 0, izEnd |-> dims[3]], c)

\* C26: in the serial build each sweep starts from reset statistics and
\* tallies |new - old| over exactly the interior points of its colour: in
\* the first round the statistics are those of the Red interior points when
\* the Red sweep has returned and those of the Black interior points alone
\* when the Black sweep has returned, and SolveVectorPoisson returns the
\* statistics of its last Black sweep.
C26_StatisticsOfLastSweepOnly ==
    ~ useTbb =>
        /\ (pc = "red" /\ iter = 0 /\ Len(phase) = 1 /\ phase[1] = "boundary") =>
               /\ residualStats = RawStatisticsOver(ColourSet(GS_RED))
               /\ tasks[1].residualsCount = Cardinality(ColourSet(GS_RED))
        /\ (pc = "red" /\ iter = 0 /\ AllJoined(phase)) =>
               residualStats = StatisticsOver(ColourSet(GS_RED))
        /\ (pc = "black" /\ iter = 0 /\ AllJoined(phase)) =>
               residualStats = StatisticsOver(ColourSet(GS_BLACK))
        /\ (pc \in {"loop", "done"} /\ iter = 1) =>
               residualStats = StatisticsOver(ColourSet(GS_BLACK))

\* A one-round serial solve has returned the statistics of its Black sweep,
\* which moved a sample, after a Red sweep that moved another sample.
C26_Witness ==
    /\ ~ useTbb
    /\ pc = "done"
    /\ iter = 1
    /\ ColourSet(GS_BLACK) # {}
    /\ residualStats.mMax > 0
    /\ residualStats = StatisticsOver(ColourSet(GS_BLACK))
    /\ residualStats # StatisticsOver(ColourSet(GS_RED))
    /\ \E o \in ColourSet(GS_RED) : soln[o] # soln0[o]

\* Offsets of the points whose x, y and z indices are all at least 1.
OffsetsAwayFromZero ==
    {FlatOffset(idx) : idx \in
        {p \in AllPoints : p[1] >= 1 /\ p[2] >= 1 /\ p[3] >= 1}}

IsFullSerialSweep(i) ==
    /\ phase[i] = "done"
    /\ tasks[i].redOrBlack = GS_BOTH
    /\ tasks[i].izStart = 0
    /\ tasks[i].izEnd = dims[3]

\* C28: under the Neumann boundary condition, when a sweep with portion
\* Both over the whole z-range has returned, every sample of the solution
\* grid equals the sample of the point with each index clamped into
\* [1, dims[a]-2]: every boundary sample equals its adjacent interior
\* sample.
C28_SerialSweepImposesNeumann ==
    \A i \in 1 .. Len(tasks) :
        (IsFullSerialSweep(i) /\ boundaryCondition = BC_NEUMANN) =>
            \A idx \in AllPoints :
                soln[FlatOffset(idx)] = soln[FlatOffset(ClampedInward(idx))]

\* On the 4x4x4 grid such a sweep has relaxed the eight interior points and
\* has overwritten the 56 boundary samples, which differed from their
\* adjacent interior samples before.
C28_Witness ==
    /\ Len(tasks) = 1
    /\ IsFullSerialSweep(1)
    /\ boundaryCondition = BC_NEUMANN
    /\ dims = <<4, 4, 4>>
    /\ Cardinality(faceWr) = 56
    /\ \A idx \in AllPoints :
           IsInterior(idx) => soln[FlatOffset(idx)] # soln0[FlatOffset(idx)]
    /\ \E idx \in AllPoints :
           /\ soln0[FlatOffset(idx)] # soln0[FlatOffset(ClampedInward(idx))]
           /\ soln[FlatOffset(idx)] = soln[FlatOffset(ClampedInward(idx))]

\* C29 as stated: when SolveVectorPoisson has returned in the serial build,
\* the residual statistics satisfy 0 <= min <= mean <= max and are not the
\* values the reset leaves.
C29_StatisticsNeverUntouched ==
    (pc = "done" /\ ~ useTbb) =>
        /\ 0 <= residualStats.mMin
        /\ residualStats.mMin <= residualStats.mMean
        /\ residualStats.mMean <= residualStats.mMax
        /\ ~ (residualStats.mMin = FLT_MAX /\ residualStats.mMax = 0 - FLT_MAX)

\* C29: when SolveVectorPoisson has returned in the serial build, the
\* residual statistics satisfy 0 <= min <= mean <= max and are not the
\* reset values if the grid has a Black interior point (dims.y >= 4 or
\* dims.z >= 4); on a grid without one they are the values the reset
\* leaves.
C29_StatisticsOfNonEmptyBlackSweep ==
    (pc = "done" /\ ~ useTbb) =>
        IF ColourSet(GS_BLACK) # {}
        THEN /\ dims[2] >= 4 \/ dims[3] >= 4
             /\ 0 <= residualStats.mMin
             /\ residualStats.mMin <= residualStats.mMean
             /\ residualStats.mMean <= residualStats.mMax
             /\ residualStats.mMax < FLT_MAX
        ELSE /\ dims[2] = 3 /\ dims[3] = 3
             /\ residualStats = ResetStats

\* A serial solve on the 3x4x4 grid has returned statistics with
\* 0 < min < mean < max.
C29_Witness ==
    /\ pc = "done"
    /\ ~ useTbb
    /\ dims = <<3, 4, 4>>
    /\ 0 < residualStats.mMin
    /\ residualStats.mMin < residualStats.mMean
    /\ residualStats.mMean < residualStats.mMax

\* The offset the ASSIGN_XYZ_OFFSETS macros give for the neighbour of idx
\* one step d along axis a.
NeighbourOffset(idx, a, d) ==
    IF a = 1 THEN (IF d = 1 THEN offsetXPY0Z0(idx) ELSE offsetXMY0Z0(idx))
    ELSE IF a = 2 THEN (IF d = 1 THEN offsetX0YPZ0(idx) ELSE offsetX0YMZ0(idx))
    ELSE (IF d = 1 THEN offsetX0Y0ZP(idx) ELSE offsetX0Y0ZM(idx))

\* C30: every offset an operator dereferences lies inside the grid and is
\* the flat offset x + dims.x*y + dims.x*dims.y*z of the point it stands
\* for: the offsets of the stencil macros wherever the neighbour exists,
\* and each subscript of the scalar grid in ComputeGradientConditionally.
C30_DereferencesAddressIntendedPoint ==
    /\ gradPc \in {"gradientDone", "conditionalDone"} =>
           \A idx \in AllPoints : \A a \in 1 .. 3 : \A d \in {-1, 1} :
               (idx[a] + d \in 0 .. dims[a] - 1) =>
                   /\ NeighbourOffset(idx, a, d) \in DOMAIN scalarVals
                   /\ NeighbourOffset(idx, a, d) = FlatOffset(Shifted(idx, a, d))
    /\ gradPc = "conditionalDone" =>
           \A idx \in ConditionalPoints(1, dims[3]) : \A a \in 1 .. 3 :
               \A r \in ConditionalDereferences(scalarVals, idx, a,
                                                NeighbourOffset(idx, a, -1),
                                                NeighbourOffset(idx, a, 1)) :
                   /\ r.at \in DOMAIN scalarVals
                   /\ r.at = FlatOffset(r.of)

====
